---- MODULE Spec2Model ----
(***************************************************************************)
(* A model of the apprentice terminal agent.                               *)
(*                                                                         *)
(*   Spec      the agent session (apprentice/src/agent.rs) with the SHELL  *)
(*             and HELP tools (apprentice/src/tools), driven by terminal   *)
(*             reads and by the results of LLMChat::get_inference.         *)
(*   SpecChat  the three chat adapters (apprentice_lib/src/llm): history,  *)
(*             request payload and the walk of the vendor response.        *)
(*   SpecExec  one exec_pipe call (apprentice/src/util.rs): the child, its *)
(*             two pipes and the two draining threads; SpecExecLive adds   *)
(*             the scheduler's fairness.                                   *)
(*   SpecDriven  Agent::run driving the OpenAI or the Anthropic adapter.   *)
(*                                                                         *)
(* A Rust String is a sequence of one-character strings when the code      *)
(* inspects it (trim, len, starts_with) and a sequence holding literal     *)
(* chunks when the code only copies or concatenates it.                    *)
(***************************************************************************)
EXTENDS Integers, Sequences, FiniteSets, TLC

VARIABLES
    \* ---- agent session (Spec) ----
    goal,           \* Help.goal, from the configuration
    message,        \* Config.message: the initial message, or NoString
    pc,             \* where Agent::run stands
    next_message,   \* the input of the next get_inference call
    tool_call,      \* the ToolCall whose SHELL confirmation is pending
    command,        \* the command Shell::exec is asking about
    response,       \* the result of the last get_inference call
    calls,          \* number of get_inference calls made by run
    events,         \* terminal and process events of the last step, in order
    execs,          \* exec_pipe invocations since the last get_inference call
    run_result,     \* what Agent::run returned
    \* ---- chat adapters (SpecChat) ----
    config,         \* the adapter's Config (provider, model, sampling)
    tool_choice,    \* the ToolChoice the session's calls are made with
    system_prompt,  \* the adapter's system_prompt field
    history,        \* the adapter's history: Vec<Value>
    payload,        \* the payload of the last request
    transport,      \* what make_json_request returned to the last call
    result,         \* what the last get_inference call returned
    op,             \* the last operation on the chat
    requests,       \* number of get_inference calls on the chat
    \* ---- one exec_pipe call (SpecExec) ----
    exec_pc,        \* where exec_pipe stands
    child,          \* the child process and the bytes it still has to write
    pipe,           \* the stdout and stderr pipes between child and lanes
    thread,         \* the two threads of stream_and_capture_stdio
    stdstream,      \* the bytes the terminal's stdout and stderr accepted
    output,         \* what exec_pipe returned
    faults          \* number of I/O faults so far

agent_vars == <<goal, message, pc, next_message, tool_call, command, response,
                calls, events, execs, run_result>>
chat_vars == <<config, tool_choice, system_prompt, history, payload, transport,
               result, op, requests>>
exec_vars == <<exec_pc, child, pipe, thread, stdstream, output, faults>>
vars == <<agent_vars, chat_vars, exec_vars>>

(***************************************************************************)
(* Bounds.                                                                 *)
(***************************************************************************)
MaxCalls == 2       \* get_inference calls of one agent session
MaxBatch == 3       \* messages in one multi-message response batch

(***************************************************************************)
(* Strings.                                                                *)
(***************************************************************************)
NoString == <<"<none>">>

IsWhitespace(c) == c \in {" ", "\t", "\n", "\r"}

RECURSIVE trim_start(_)
trim_start(s) ==
    IF s # <<>> /\ IsWhitespace(Head(s)) THEN trim_start(Tail(s)) ELSE s

RECURSIVE trim_end(_)
trim_end(s) ==
    IF s # <<>> /\ IsWhitespace(s[Len(s)])
    THEN trim_end(SubSeq(s, 1, Len(s) - 1))
    ELSE s

trim(s) == trim_end(trim_start(s))

starts_with(s, p) == Len(s) >= Len(p) /\ SubSeq(s, 1, Len(p)) = p

contains(s, p) ==
    \E i \in 0..(Len(s) - Len(p)) : SubSeq(s, i + 1, i + Len(p)) = p

(***************************************************************************)
(* Message model: apprentice_lib/src/llm/messages.rs.                      *)
(***************************************************************************)
Message_text(role, msg) == [type |-> "Text", role |-> role, message |-> msg]

Message_tool_use(call_id, name, params) ==
    [type |-> "ToolCall", call_id |-> call_id, name |-> name, params |-> params]

Message_tool_result(call_id, name, res) ==
    [type |-> "ToolResult", call_id |-> call_id, name |-> name, result |-> res]

NoMessage == [type |-> "None"]

\* llm::ToolParam {name, value}; a serde_json Value is tagged with its kind.
InputParam(name, value) == [name |-> name, value |-> value]
JStr(s) == [t |-> "str", v |-> s]
JNum(n) == [t |-> "num", v |-> n]
as_str_is_some(value) == value.t = "str"

(***************************************************************************)
(* Errors: apprentice_lib/src/error.rs and apprentice/src/error.rs.        *)
(***************************************************************************)
LibErrorKinds ==
    {"MissingArgError", "LLMCallError", "LLMJsonError", "LLMResponseError",
     "Error", "LLMErrorMessage"}

LibErr(kind, msg) == [kind |-> kind, msg |-> msg]

AppError(variant, kind, msg) == [variant |-> variant, kind |-> kind, msg |-> msg]
AppError_LibError(e) == AppError("LibError", e.kind, e.msg)
AppError_Rustyline(kind) == AppError("Rustyline", kind, <<>>)
AppError_ApplicationError(msg) == AppError("ApplicationError", "", msg)
AppError_Error(msg) == AppError("Error", "", msg)
NoError == AppError("None", "", <<>>)

\* Display of the lib Error (the #[error] strings of error.rs).
LibError_Display(kind, msg) ==
    CASE kind = "MissingArgError" -> <<"Missing mandatory arguments: ">> \o msg
      [] kind = "LLMCallError" -> <<"Failed to call LLM: ">> \o msg
      [] kind = "LLMJsonError" -> <<"Failed to process LLM call: ">> \o msg
      [] kind = "LLMResponseError" -> <<"Failed to parse LLM response: ">> \o msg
      [] kind = "LLMErrorMessage" ->
            <<"LLM provider responded with error: ">> \o msg
      [] OTHER -> msg

\* Display of AppError::LibError.
AppError_LibError_Display(kind, msg) ==
    <<"Incorrect argument value: ">> \o LibError_Display(kind, msg)

Ok(val) == [ok |-> TRUE, val |-> val, err |-> NoError]
Err(e) == [ok |-> FALSE, val |-> <<>>, err |-> e]

(***************************************************************************)
(* Literal strings of the tools and the inputs the model draws from.       *)
(***************************************************************************)
S_SHELL == <<"SHELL">>
S_HELP == <<"HELP">>
S_command == <<"command">>
S_y == <<"y">>
S_n == <<"n">>
S_question == <<"?">>

P_gcloud == <<"g", "c", "l", "o", "u", "d", " ">>
P_bq == <<"b", "q", " ">>
P_gsutil == <<"g", "s", "u", "t", "i", "l", " ">>
P_aws == <<"a", "w", "s", " ">>
P_az == <<"a", "z", " ">>

Goals == {"Gcp", "Aws", "Azure"}

Commands ==
    {P_gcloud \o <<"x">>, P_bq \o <<"x">>, P_gsutil \o <<"x">>,
     P_aws \o <<"x">>, P_az \o <<"x">>,
     <<"l", "s">>, <<"g", "c", "l", "o", "u", "d", "x">>}

\* What the terminal hands back: a line, or a ReadlineError.
ReadlineErrors == {"Interrupted", "Eof", "Io"}
Read_Ok(line) == [ok |-> TRUE, line |-> line, err |-> NoError]
Read_Err(kind) == [ok |-> FALSE, line |-> <<>>, err |-> AppError_Rustyline(kind)]

UserLines ==
    {<<"h", "i">>, <<" ", "h", "i", " ">>, <<"?">>, <<" ", "?">>, <<>>, <<" ">>}
AnswerLines ==
    {<<"y">>, <<"n">>, <<" ", "y", " ">>, <<"n", " ">>, <<"x">>, <<>>,
     <<"y", "e", "s">>, <<"n", "o">>, <<"Y">>}
ReasonLines == {<<"n", "o", "t", " ", "s", "a", "f", "e">>, <<>>, <<" ", "x">>}

Reads(lines) ==
    {Read_Ok(l) : l \in lines} \cup {Read_Err(k) : k \in ReadlineErrors}

\* What running a command can come to: its captured streams, or a failure to
\* spawn, capture or wait.
ExecOutcomes ==
    {[ok |-> TRUE, stdout |-> <<"o">>, stderr |-> <<"e">>],
     [ok |-> FALSE, stdout |-> <<>>, stderr |-> <<>>]}

\* Events of a step: what was printed, read or run, with its text; a read
\* carries the prompt it was made under and the kind of its ReadlineError;
\* a model call carries the messages handed to get_inference.
Event(e, text) == [e |-> e, prompt |-> <<>>, text |-> text]
ReadEvent(e, prompt, read) ==
    [e |-> IF read.ok THEN e ELSE e \o "_err", prompt |-> prompt, text |-> read.line,
     kind |-> read.err.kind]
InferenceEvent(messages) ==
    [e |-> "get_inference", prompt |-> <<>>, text |-> <<>>, messages |-> messages]

ExecuteCommandPrompt == <<"Execute command? (y - yes / n - no): ">>
ReasonPrompt == <<"reason: ">>

NumExecs(ev) == Cardinality({i \in 1..Len(ev) : ev[i].e = "exec_pipe"})

(***************************************************************************)
(* The outcome of a step of Agent::run: where it stands next.              *)
(***************************************************************************)
NotReturned == [returned |-> FALSE, ok |-> FALSE, err |-> NoError]
Returned_Ok == [returned |-> TRUE, ok |-> TRUE, err |-> NoError]
Returned_Err(e) == [returned |-> TRUE, ok |-> FALSE, err |-> e]

St(p, nm, tc, cmd, ev, rr) ==
    [pc |-> p, next_message |-> nm, tool_call |-> tc, command |-> cmd,
     events |-> ev, run_result |-> rr]

\* process_response returned Err(e): the ? of run (agent.rs 57, 72) returns it.
Return_Err(e, ev) == St("done", NoMessage, NoMessage, NoString, ev, Returned_Err(e))
\* process_response returned Ok(None): run returns Ok(()) (agent.rs 60, 75-79).
Return_None(ev) == St("done", NoMessage, NoMessage, NoString, ev, Returned_Ok)
\* process_response returned Ok(Some(msg)): run loops to get_inference.
Return_Some(msg, ev) == St("inference", msg, NoMessage, NoString, ev, NotReturned)
\* process_response called get_user_message, which blocks in term.user_input.
get_user_message(ev) ==
    St("get_user_message", NoMessage, NoMessage, NoString, ev, NotReturned)

(***************************************************************************)
(* apprentice/src/util.rs: exec_pipe.  px is what the child process did.   *)
(***************************************************************************)
exec_pipe(cmd, px) ==
    IF px.ok
    THEN Ok(<<"STDOUT:\n">> \o px.stdout \o <<"\nSTDERR:\n">> \o px.stderr)
    ELSE Err(AppError_Error(<<"Failed to run ">> \o cmd))

(***************************************************************************)
(* apprentice/src/tools/help.rs: Help::call_tool.                          *)
(* Gives the returned Result and the events of the call.                   *)
(***************************************************************************)
\* Mutant of Help_full_cmd: the program names of all goals are accepted.
Help_full_cmd_any_goal(cmd, g) ==
    IF starts_with(cmd, P_gcloud) \/ starts_with(cmd, P_bq) \/ starts_with(cmd, P_gsutil)
         \/ starts_with(cmd, P_aws) \/ starts_with(cmd, P_az)
    THEN [allowed |-> TRUE, text |-> cmd \o <<" --help">>]
    ELSE [allowed |-> FALSE, text |-> <<"command must start with a cloud CLI name.">>]

Help_full_cmd(cmd, g) ==
    CASE g = "Gcp" ->
            IF starts_with(cmd, P_gcloud) \/ starts_with(cmd, P_bq)
                 \/ starts_with(cmd, P_gsutil)
            THEN [allowed |-> TRUE, text |-> cmd \o <<" --help">>]
            ELSE [allowed |-> FALSE,
                  text |-> <<"command must start with \"gcloud \",  \"bq  \", or  \"gsutil  \".">>]
      [] g = "Aws" ->
            IF starts_with(cmd, P_aws)
            THEN [allowed |-> TRUE, text |-> cmd \o <<" help">>]
            ELSE [allowed |-> FALSE, text |-> <<"command must start with \"aws \".">>]
      [] g = "Azure" ->
            IF starts_with(cmd, P_az)
            THEN [allowed |-> TRUE, text |-> cmd \o <<" --help">>]
            ELSE [allowed |-> FALSE, text |-> <<"command must start with \"az \".">>]

WrongNumber ==
    <<"wrong number of input parameters, expect 1 parameter called \"command\" of type string.">>
WrongName ==
    <<"wrong parameter name, expect 1 parameter called \"command\" of type string.">>
WrongType ==
    <<"wrong parameter value type, expect 1 parameter called \"command\" of type string.">>

Help_call_tool(params, g, px) ==
    IF Len(params) = 1
    THEN LET param == params[1] IN
         IF param.name = S_command
         THEN IF as_str_is_some(param.value)
              THEN LET full == Help_full_cmd(param.value.v, g) IN
                   IF full.allowed
                   THEN [ret |-> exec_pipe(full.text, px),
                         events |-> <<Event("exec_pipe", full.text)>>]
                   ELSE [ret |-> Ok(full.text), events |-> <<>>]
              ELSE [ret |-> Ok(WrongType), events |-> <<>>]
         ELSE [ret |-> Ok(WrongName), events |-> <<>>]
    ELSE [ret |-> Ok(WrongNumber), events |-> <<>>]

(***************************************************************************)
(* apprentice/src/agent.rs: the tail of process_tool_call, once the tool   *)
(* returned ret.                                                           *)
(***************************************************************************)
\* Mutant of finish_tool_call: after the tool the user is asked for input.
finish_tool_call_asks_user(tc, ret, ev) ==
    IF ret.ok THEN get_user_message(ev) ELSE Return_Err(ret.err, ev)

\* Mutant of finish_tool_call: the ToolResult loses the call_id of the call.
finish_tool_call_no_call_id(tc, ret, ev) ==
    IF ret.ok
    THEN Return_Some(Message_tool_result(<<>>, tc.name, ret.val), ev)
    ELSE Return_Err(ret.err, ev)

finish_tool_call(tc, ret, ev) ==
    IF ret.ok
    THEN Return_Some(Message_tool_result(tc.call_id, tc.name, ret.val), ev)
    ELSE Return_Err(ret.err, ev)

(***************************************************************************)
(* apprentice/src/tools/shell.rs.                                          *)
(***************************************************************************)
\* Shell::exec up to its first read: the command is shown, then the loop
\* blocks in term.tool_input.
Shell_exec(cmd, tc, ev) ==
    St("exec_confirm", NoMessage, tc, cmd,
       Append(ev, Event("print_tool_message", cmd)), NotReturned)

\* Mutant of Shell_call_tool: a parameter that is no string is a hard error.
Shell_call_tool_strict(tc, ev) ==
    LET params == tc.params IN
    IF Len(params) = 1
    THEN LET param == params[1] IN
         IF param.name = S_command
         THEN IF as_str_is_some(param.value)
              THEN Shell_exec(param.value.v, tc, ev)
              ELSE finish_tool_call(tc, Err(AppError_ApplicationError(WrongType)), ev)
         ELSE finish_tool_call(tc, Ok(WrongName), ev)
    ELSE finish_tool_call(tc, Ok(WrongNumber), ev)

Shell_call_tool(tc, ev) ==
    LET params == tc.params IN
    IF Len(params) = 1
    THEN LET param == params[1] IN
         IF param.name = S_command
         THEN IF as_str_is_some(param.value)
              THEN Shell_exec(param.value.v, tc, ev)
              ELSE finish_tool_call(tc, Ok(WrongType), ev)
         ELSE finish_tool_call(tc, Ok(WrongName), ev)
    ELSE finish_tool_call(tc, Ok(WrongNumber), ev)

(***************************************************************************)
(* apprentice/src/agent.rs: process_tool_call and process_response.        *)
(***************************************************************************)
\* Mutant of process_tool_call: an unknown tool name is a hard error.
process_tool_call_unknown_fatal(tc, ev, g, px) ==
    IF tc.name = S_SHELL
    THEN Shell_call_tool(tc, ev)
    ELSE IF tc.name = S_HELP
         THEN LET h == Help_call_tool(tc.params, g, px) IN
              finish_tool_call(tc, h.ret, ev \o h.events)
         ELSE Return_Err(AppError_ApplicationError(<<"Unknown tool.">>), ev)

process_tool_call(tc, ev, g, px) ==
    IF tc.name = S_SHELL
    THEN Shell_call_tool(tc, ev)
    ELSE IF tc.name = S_HELP
         THEN LET h == Help_call_tool(tc.params, g, px) IN
              finish_tool_call(tc, h.ret, ev \o h.events)
         ELSE finish_tool_call(
                  tc, Ok(<<"Unknown tool \"">> \o tc.name \o <<"\" was requested.">>), ev)

ParallelToolCall == <<"Unexpected LLM response: parallel tool call is requested.">>
UnexpectedToolResult == <<"Unexpected \"tool result\" message from LLM.">>
UnexpectedMessageType == <<"Unexpected message type from the LLM.">>

\* Mutant of scan_results: a second ToolCall replaces the first without error.
RECURSIVE scan_results_last_wins(_, _, _, _)
scan_results_last_wins(results, i, tool_msg, ev) ==
    IF i > Len(results)
    THEN [err |-> NoError, tool_msg |-> tool_msg, events |-> ev]
    ELSE LET m == results[i] IN
         CASE m.type = "Text" ->
                scan_results_last_wins(results, i + 1, tool_msg,
                             Append(ev, Event("apprentice_print", m.message)))
           [] m.type = "ToolCall" -> scan_results_last_wins(results, i + 1, m, ev)
           [] m.type = "ToolResult" ->
                [err |-> AppError_ApplicationError(UnexpectedToolResult),
                 tool_msg |-> tool_msg, events |-> ev]

\* Mutant of scan_results: a ToolResult in the batch is passed over.
RECURSIVE scan_results_skips_tool_result(_, _, _, _)
scan_results_skips_tool_result(results, i, tool_msg, ev) ==
    IF i > Len(results)
    THEN [err |-> NoError, tool_msg |-> tool_msg, events |-> ev]
    ELSE LET m == results[i] IN
         CASE m.type = "Text" ->
                scan_results_skips_tool_result(
                    results, i + 1, tool_msg,
                    Append(ev, Event("apprentice_print", m.message)))
           [] m.type = "ToolCall" ->
                IF tool_msg # NoMessage
                THEN [err |-> AppError_ApplicationError(ParallelToolCall),
                      tool_msg |-> m, events |-> ev]
                ELSE scan_results_skips_tool_result(results, i + 1, m, ev)
           [] m.type = "ToolResult" ->
                scan_results_skips_tool_result(results, i + 1, tool_msg, ev)

\* The for loop of process_response (agent.rs 105-120) from message i on:
\* tool_msg is the Option the loop tracks, ev the events so far.
RECURSIVE scan_results(_, _, _, _)
scan_results(results, i, tool_msg, ev) ==
    IF i > Len(results)
    THEN [err |-> NoError, tool_msg |-> tool_msg, events |-> ev]
    ELSE LET m == results[i] IN
         CASE m.type = "Text" ->
                scan_results(results, i + 1, tool_msg,
                             Append(ev, Event("apprentice_print", m.message)))
           [] m.type = "ToolCall" ->
                IF tool_msg # NoMessage
                THEN [err |-> AppError_ApplicationError(ParallelToolCall),
                      tool_msg |-> m, events |-> ev]
                ELSE scan_results(results, i + 1, m, ev)
           [] m.type = "ToolResult" ->
                [err |-> AppError_ApplicationError(UnexpectedToolResult),
                 tool_msg |-> tool_msg, events |-> ev]

\* Mutant of Agent_process_response: a failed model call is made again with
\* the same input.
Agent_process_response_retries(resp, ev, g, px) ==
    IF resp.ok
    THEN LET results == resp.val IN
         IF Len(results) > 1 \/ results = <<>>
         THEN LET sc == scan_results(results, 1, NoMessage, ev) IN
              IF sc.err # NoError
              THEN Return_Err(sc.err, sc.events)
              ELSE IF sc.tool_msg # NoMessage
                   THEN process_tool_call(sc.tool_msg, sc.events, g, px)
                   ELSE get_user_message(sc.events)
         ELSE LET m == results[1] IN
              CASE m.type = "Text" ->
                     get_user_message(Append(ev, Event("apprentice_print", m.message)))
                [] m.type = "ToolCall" -> process_tool_call(m, ev, g, px)
                [] m.type = "ToolResult" ->
                     Return_Err(AppError_ApplicationError(UnexpectedMessageType), ev)
    ELSE Return_Some(ev[1].messages[1], ev)

\* Mutant of Agent_process_response: an empty batch ends the session.
Agent_process_response_empty_fatal(resp, ev, g, px) ==
    IF resp.ok
    THEN LET results == resp.val IN
         IF results = <<>>
         THEN Return_Err(AppError_ApplicationError(<<"Empty LLM response.">>), ev)
         ELSE IF Len(results) > 1
         THEN LET sc == scan_results(results, 1, NoMessage, ev) IN
              IF sc.err # NoError
              THEN Return_Err(sc.err, sc.events)
              ELSE IF sc.tool_msg # NoMessage
                   THEN process_tool_call(sc.tool_msg, sc.events, g, px)
                   ELSE get_user_message(sc.events)
         ELSE LET m == results[1] IN
              CASE m.type = "Text" ->
                     get_user_message(Append(ev, Event("apprentice_print", m.message)))
                [] m.type = "ToolCall" -> process_tool_call(m, ev, g, px)
                [] m.type = "ToolResult" ->
                     Return_Err(AppError_ApplicationError(UnexpectedMessageType), ev)
    ELSE IF resp.err.variant = "LibError"
         THEN LET printed ==
                    IF resp.err.kind \in {"LLMErrorMessage", "LLMCallError"}
                    THEN <<Event("apprentice_print",
                                 AppError_LibError_Display(resp.err.kind, resp.err.msg))>>
                    ELSE <<>>
              IN get_user_message(ev \o printed)
         ELSE Return_Err(resp.err, ev)

\* Mutant of Agent_process_response: every failed call ends the session.
Agent_process_response_all_fatal(resp, ev, g, px) ==
    IF resp.ok
    THEN LET results == resp.val IN
         IF Len(results) > 1 \/ results = <<>>
         THEN LET sc == scan_results(results, 1, NoMessage, ev) IN
              IF sc.err # NoError
              THEN Return_Err(sc.err, sc.events)
              ELSE IF sc.tool_msg # NoMessage
                   THEN process_tool_call(sc.tool_msg, sc.events, g, px)
                   ELSE get_user_message(sc.events)
         ELSE LET m == results[1] IN
              CASE m.type = "Text" ->
                     get_user_message(Append(ev, Event("apprentice_print", m.message)))
                [] m.type = "ToolCall" -> process_tool_call(m, ev, g, px)
                [] m.type = "ToolResult" ->
                     Return_Err(AppError_ApplicationError(UnexpectedMessageType), ev)
    ELSE Return_Err(resp.err, ev)

Agent_process_response(resp, ev, g, px) ==
    IF resp.ok
    THEN LET results == resp.val IN
         IF Len(results) > 1 \/ results = <<>>
         THEN LET sc == scan_results(results, 1, NoMessage, ev) IN
              IF sc.err # NoError
              THEN Return_Err(sc.err, sc.events)
              ELSE IF sc.tool_msg # NoMessage
                   THEN process_tool_call(sc.tool_msg, sc.events, g, px)
                   ELSE get_user_message(sc.events)
         ELSE LET m == results[1] IN
              CASE m.type = "Text" ->
                     get_user_message(Append(ev, Event("apprentice_print", m.message)))
                [] m.type = "ToolCall" -> process_tool_call(m, ev, g, px)
                [] m.type = "ToolResult" ->
                     Return_Err(AppError_ApplicationError(UnexpectedMessageType), ev)
    ELSE IF resp.err.variant = "LibError"
         THEN LET printed ==
                    IF resp.err.kind \in {"LLMErrorMessage", "LLMCallError"}
                    THEN <<Event("apprentice_print",
                                 AppError_LibError_Display(resp.err.kind, resp.err.msg))>>
                    ELSE <<>>
              IN get_user_message(ev \o printed)
         ELSE Return_Err(resp.err, ev)

(***************************************************************************)
(* What get_inference can hand to process_response: LLMChat is a trait, so *)
(* any batch of messages and any lib Error.                                *)
(***************************************************************************)
ToolNames == {S_SHELL, S_HELP, <<"OTHER">>}

ParamLists ==
    {<<InputParam(S_command, JStr(c))>> : c \in Commands}
    \cup {<<>>,
          <<InputParam(<<"cmd">>, JStr(<<"l", "s">>))>>,
          <<InputParam(S_command, JNum(5))>>,
          <<InputParam(S_command, JStr(<<"l", "s">>)),
            InputParam(<<"cwd">>, JStr(<<"/">>))>>}

TextMessages == {Message_text("Model", <<"hello">>)}
ToolCallMessages ==
    {Message_tool_use(<<"call_1">>, n, ps) : n \in ToolNames, ps \in ParamLists}
ToolResultMessages == {Message_tool_result(<<"call_0">>, S_SHELL, <<"r">>)}

SingleMessages == TextMessages \cup ToolCallMessages \cup ToolResultMessages

\* The messages of the longer batches.
BatchMessages ==
    TextMessages
    \cup {Message_tool_use(<<"call_1">>, S_SHELL,
                           <<InputParam(S_command, JStr(<<"l", "s">>))>>),
          Message_tool_use(<<"call_2">>, S_HELP,
                           <<InputParam(S_command, JStr(P_gcloud \o <<"x">>))>>)}
    \cup ToolResultMessages

RECURSIVE SeqsOfLen(_, _)
SeqsOfLen(S, n) ==
    IF n = 0 THEN {<<>>}
    ELSE {Append(q, x) : q \in SeqsOfLen(S, n - 1), x \in S}

Batches ==
    {<<>>} \cup {<<m>> : m \in SingleMessages}
    \cup UNION {SeqsOfLen(BatchMessages, n) : n \in 2..MaxBatch}

LibErrors == {LibErr(k, <<"rate limited">>) : k \in LibErrorKinds}

InferenceResults == {Ok(b) : b \in Batches} \cup {Err(e) : e \in LibErrors}

\* agent.rs 54-55, 69-70: the lib Error is wrapped into AppError::LibError.
map_err_LibError(r) == IF r.ok THEN r ELSE Err(AppError_LibError(r.err))

(***************************************************************************)
(* The agent session.                                                      *)
(***************************************************************************)
\* No exec_pipe call is modelled in detail.
ExecIdle ==
    /\ exec_pc = "idle"
    /\ child = [state |-> "none", todo |-> <<>>]
    /\ pipe = <<>>
    /\ thread = <<>>
    /\ stdstream = <<>>
    /\ output = Ok(<<>>)
    /\ faults = 0

ChatIdle ==
    /\ config = [provider |-> "None"]
    /\ tool_choice = [kind |-> "Auto", name |-> <<>>]
    /\ system_prompt = <<>>
    /\ history = <<>>
    /\ payload = [t |-> "null"]
    /\ transport = Ok([t |-> "null"])
    /\ result = Ok(<<>>)
    /\ op = "new"
    /\ requests = 0

AgentInit ==
    /\ goal \in Goals
    /\ message \in {NoString, <<" ", "h", "i">>}
    /\ pc = "run"
    /\ next_message = NoMessage
    /\ tool_call = NoMessage
    /\ command = NoString
    /\ response = Ok(<<>>)
    /\ calls = 0
    /\ events = <<>>
    /\ execs = 0
    /\ run_result = NotReturned
    /\ ChatIdle
    /\ ExecIdle

Become(st) ==
    /\ pc' = st.pc
    /\ next_message' = st.next_message
    /\ tool_call' = st.tool_call
    /\ command' = st.command
    /\ events' = st.events
    /\ run_result' = st.run_result

\* Mutant of Run_start: the configured message is ignored and the user is asked.
Run_start_always_prompts ==
    get_user_message(<<Event("print_into", <<>>)>>)

\* agent.rs 48-66: the start of run.
Run_start ==
    LET ev == <<Event("print_into", <<>>)>> IN
    IF message # NoString
    THEN Return_Some(Message_text("User", message), ev)
    ELSE get_user_message(ev)

Run ==
    /\ pc = "run"
    /\ Become(Run_start)
    /\ execs' = execs + NumExecs(events')
    /\ UNCHANGED <<exec_vars, goal, message, response, calls, chat_vars>>

\* Mutant of get_user_message_read: end of input is an error like any other.
get_user_message_read_eof_error(read) ==
    LET ev == <<ReadEvent("user_input", <<>>, read)>> IN
    IF read.ok
    THEN LET user_msg == trim(read.line) IN
         IF user_msg # <<>>
         THEN IF user_msg = S_question
              THEN get_user_message(Append(ev, Event("print_help", <<>>)))
              ELSE Return_Some(Message_text("User", trim(user_msg)), ev)
         ELSE get_user_message(ev)
    ELSE IF read.err.variant = "Rustyline" /\ read.err.kind = "Interrupted"
         THEN Return_None(ev)
         ELSE Return_Err(read.err, ev)

\* Mutant of get_user_message_read: a blank line counts as a user turn.
get_user_message_read_blank_is_turn(read) ==
    LET ev == <<ReadEvent("user_input", <<>>, read)>> IN
    IF read.ok
    THEN LET user_msg == trim(read.line) IN
         IF user_msg = S_question
         THEN get_user_message(Append(ev, Event("print_help", <<>>)))
         ELSE Return_Some(Message_text("User", trim(user_msg)), ev)
    ELSE IF read.err.variant = "Rustyline" /\ read.err.kind \in {"Interrupted", "Eof"}
         THEN Return_None(ev)
         ELSE Return_Err(read.err, ev)

\* agent.rs 82-100 and 176-186: one turn of the loop of get_user_message.
get_user_message_read(read) ==
    LET ev == <<ReadEvent("user_input", <<>>, read)>> IN
    IF read.ok
    THEN LET user_msg == trim(read.line) IN
         IF user_msg # <<>>
         THEN IF user_msg = S_question
              THEN get_user_message(Append(ev, Event("print_help", <<>>)))
              ELSE Return_Some(Message_text("User", trim(user_msg)), ev)
         ELSE get_user_message(ev)
    ELSE IF read.err.variant = "Rustyline" /\ read.err.kind \in {"Interrupted", "Eof"}
         THEN Return_None(ev)
         ELSE Return_Err(read.err, ev)

GetUserMessage ==
    /\ pc = "get_user_message"
    /\ \E read \in Reads(UserLines) : Become(get_user_message_read(read))
    /\ execs' = execs + NumExecs(events')
    /\ UNCHANGED <<exec_vars, goal, message, response, calls, chat_vars>>

\* help.rs 41-75: process_response reaches exec_pipe only through the HELP
\* tool, so the outcome of running a command is an input of the step only
\* when the batch holds a HELP call.
ExecOutcomesOf(r) ==
    IF r.ok /\ \E i \in DOMAIN r.val :
                  r.val[i].type = "ToolCall" /\ r.val[i].name = S_HELP
    THEN ExecOutcomes
    ELSE {px \in ExecOutcomes : px.ok}

\* agent.rs 54-57, 69-72: get_inference, then process_response on its result.
Inference ==
    /\ pc = "inference"
    /\ calls < MaxCalls
    /\ \E r \in InferenceResults : \E px \in ExecOutcomesOf(r) :
          /\ response' = map_err_LibError(r)
          /\ Become(Agent_process_response(
                        response', <<InferenceEvent(<<next_message>>)>>, goal, px))
    /\ calls' = calls + 1
    /\ execs' = NumExecs(events')
    /\ UNCHANGED <<exec_vars, goal, message, chat_vars>>

\* Mutant of Shell_exec_read: any single character but "n" counts as yes.
Shell_exec_read_any_key(read, cmd, tc, px) ==
    LET ev == <<ReadEvent("tool_input", ExecuteCommandPrompt, read)>> IN
    IF ~read.ok
    THEN Return_Err(read.err, ev)
    ELSE LET user_input == trim(read.line) IN
         IF Len(user_input) = 1
         THEN IF user_input = S_n
              THEN St("exec_reason", NoMessage, tc, cmd, ev, NotReturned)
              ELSE finish_tool_call(tc, exec_pipe(cmd, px),
                                    Append(ev, Event("exec_pipe", cmd)))
         ELSE St("exec_confirm", NoMessage, tc, cmd, ev, NotReturned)

\* shell.rs 45-66: one turn of the loop of Shell::exec.
Shell_exec_read(read, cmd, tc, px) ==
    LET ev == <<ReadEvent("tool_input", ExecuteCommandPrompt, read)>> IN
    IF ~read.ok
    THEN Return_Err(read.err, ev)
    ELSE LET user_input == trim(read.line) IN
         IF Len(user_input) = 1
         THEN CASE user_input = S_y ->
                     finish_tool_call(tc, exec_pipe(cmd, px),
                                      Append(ev, Event("exec_pipe", cmd)))
                [] user_input = S_n ->
                     St("exec_reason", NoMessage, tc, cmd, ev, NotReturned)
                [] OTHER -> St("exec_confirm", NoMessage, tc, cmd, ev, NotReturned)
         ELSE St("exec_confirm", NoMessage, tc, cmd, ev, NotReturned)

ExecConfirm ==
    /\ pc = "exec_confirm"
    /\ \E read \in Reads(AnswerLines), px \in ExecOutcomes :
          Become(Shell_exec_read(read, command, tool_call, px))
    /\ execs' = execs + NumExecs(events')
    /\ UNCHANGED <<exec_vars, goal, message, response, calls, chat_vars>>

\* Mutant of Shell_exec_reason: the reason is read and dropped.
Shell_exec_reason_dropped(read, tc) ==
    LET ev == <<ReadEvent("tool_input", ReasonPrompt, read)>> IN
    IF ~read.ok
    THEN Return_Err(read.err, ev)
    ELSE finish_tool_call(tc, Ok(<<"User cancelled the operation.">>), ev)

\* shell.rs 58-59: the reason read of the "n" arm.
Shell_exec_reason(read, tc) ==
    LET ev == <<ReadEvent("tool_input", ReasonPrompt, read)>> IN
    IF ~read.ok
    THEN Return_Err(read.err, ev)
    ELSE finish_tool_call(
             tc, Ok(<<"User cancelled the operation with the reason: ">> \o read.line), ev)

ExecReason ==
    /\ pc = "exec_reason"
    /\ \E read \in Reads(ReasonLines) : Become(Shell_exec_reason(read, tool_call))
    /\ execs' = execs + NumExecs(events')
    /\ UNCHANGED <<exec_vars, goal, message, response, calls, chat_vars>>

AgentNext ==
    \/ Run
    \/ GetUserMessage
    \/ Inference
    \/ ExecConfirm
    \/ ExecReason

Spec == AgentInit /\ [][AgentNext]_vars

(***************************************************************************)
(* Claims about the agent session.                                         *)
(***************************************************************************)
IsExec(ev, i) == ev[i].e = "exec_pipe"
IsConfirmRead(ev) ==
    ev # <<>> /\ ev[1].e = "tool_input" /\ ev[1].prompt = ExecuteCommandPrompt
IsReasonRead(ev) ==
    ev # <<>> /\ ev[1].e = "tool_input" /\ ev[1].prompt = ReasonPrompt
Dispatched(ev) ==
    \E i \in 1..Len(ev) : ev[i].e \in {"print_tool_message", "exec_pipe", "tool_input"}
NumToolCalls(batch) ==
    Cardinality({i \in 1..Len(batch) : batch[i].type = "ToolCall"})
AfterInference == events # <<>> /\ events[1].e = "get_inference"

\* C1: every execution of a command through exec_pipe, by SHELL or by HELP,
\* happens in a step of the confirmation loop that shows that command, right
\* after the human's answer "y" to it: no command runs unconfirmed.
C1_ExecStep ==
    \A i \in 1..Len(events') :
        IsExec(events', i) =>
            /\ pc = "exec_confirm"
            /\ events'[i].text = command
            /\ i > 1
            /\ IsConfirmRead(events')
            /\ trim(events'[i - 1].text) = S_y
C1_EveryExecConfirmed == [][C1_ExecStep]_vars

\* C2: a response batch with two or more ToolCall messages ends the session
\* with an error and dispatches no tool: nothing is shown for confirmation,
\* nothing is executed and no ToolResult is built, wherever the calls stand.
C2_ParallelToolCallsFail ==
    (calls > 0 /\ response.ok /\ NumToolCalls(response.val) >= 2) =>
        /\ pc = "done"
        /\ run_result.returned /\ ~run_result.ok
        /\ run_result.err.variant = "ApplicationError"
        /\ ~Dispatched(events)
        /\ execs = 0
        /\ next_message = NoMessage
        /\ tool_call = NoMessage
C2_Witness ==
    /\ response.ok
    /\ Len(response.val) = 3
    /\ response.val[1].type = "ToolCall"
    /\ response.val[2].type = "Text"
    /\ response.val[3].type = "ToolCall"
    /\ pc = "done"

\* C3: in the SHELL tool, after the answer "n" and a reason read, the tool
\* result is an Ok string that contains the reason, it is fed back as the
\* ToolResult of the call, and exec_pipe was not invoked in that tool call.
C3_DeclineEmbedsReason ==
    IsReasonRead(events) =>
        /\ pc = "inference"
        /\ ~run_result.returned
        /\ next_message.type = "ToolResult"
        /\ contains(next_message.result, events[1].text)
        /\ execs = 0
C3_Witness ==
    /\ IsReasonRead(events)
    /\ events[1].text = <<"n", "o", "t", " ", "s", "a", "f", "e">>
    /\ contains(next_message.result, <<"n", "o", "t", " ", "s", "a", "f", "e">>)

\* C4: in the SHELL confirmation loop an answer whose trimmed text is neither
\* "y" nor "n" re-prompts: the loop stays where it was, nothing is executed,
\* no model call is made and the chat is not touched.  A result is returned
\* only after "y", with the command executed exactly once, or after "n" and
\* the reason read, with the command not executed.
C4_ConfirmStep ==
    /\ pc \in {"exec_confirm", "exec_reason"} =>
          /\ execs = 0
          /\ calls' = calls
          /\ history' = history
    /\ (pc = "exec_confirm" /\ IsConfirmRead(events')) =>
          LET a == trim(events'[1].text) IN
          /\ a \notin {S_y, S_n} =>
                /\ pc' = "exec_confirm"
                /\ command' = command
                /\ tool_call' = tool_call
                /\ execs' = 0
                /\ next_message' = NoMessage
                /\ ~run_result'.returned
          /\ a = S_y => execs' = 1 /\ pc' \in {"inference", "done"}
          /\ a = S_n => execs' = 0 /\ pc' = "exec_reason"
    /\ (pc = "exec_confirm" /\ pc' = "inference") =>
          /\ IsConfirmRead(events') /\ trim(events'[1].text) = S_y
          /\ next_message'.type = "ToolResult"
    /\ (pc = "exec_reason" /\ pc' = "inference") =>
          /\ execs' = 0
          /\ next_message'.type = "ToolResult"
C4_RepromptUntilYesOrNo == [][C4_ConfirmStep]_vars
C4_Witness ==
    /\ pc = "exec_confirm"
    /\ IsConfirmRead(events)
    /\ trim(events[1].text) = <<"x">>
    /\ execs = 0

\* C9: when get_inference fails with Error::LLMErrorMessage, the error is
\* printed and the session goes on to read the user's next message: run has
\* not returned and no tool was dispatched.
C9_ProviderErrorContinues ==
    (AfterInference /\ ~response.ok /\ response.err.kind = "LLMErrorMessage") =>
        /\ pc = "get_user_message"
        /\ ~run_result.returned
        /\ events =
              <<events[1],
                Event("apprentice_print",
                      AppError_LibError_Display("LLMErrorMessage", response.err.msg))>>
        /\ execs = 0
        /\ next_message = NoMessage
        /\ tool_call = NoMessage
C9_Witness ==
    /\ AfterInference
    /\ ~response.ok
    /\ response.err.kind = "LLMErrorMessage"
    /\ pc = "get_user_message"

\* C10: a get_inference failure that is not Error::LLMErrorMessage is fatal:
\* run returns an error and no further user input is requested.
C10_OtherFailuresFatal ==
    (AfterInference /\ ~response.ok /\ response.err.kind # "LLMErrorMessage") =>
        /\ pc = "done"
        /\ run_result.returned /\ ~run_result.ok

(***************************************************************************)
(* serde_json values: tagged with their kind.  An object is a function     *)
(* from its keys, an array a sequence, a string a sequence of chunks.      *)
(***************************************************************************)
JNull == [t |-> "null"]
JBool(b) == [t |-> "bool", v |-> b]
JArr(q) == [t |-> "arr", v |-> q]
JObj(f) == [t |-> "obj", v |-> f]
JEmptyObj == JObj(<<>>)

\* value[key]: Null when value is no object or has no such key.
Idx(value, key) ==
    IF value.t = "obj" /\ key \in DOMAIN value.v THEN value.v[key] ELSE JNull
\* value.get(key).is_some()
HasKey(value, key) == value.t = "obj" /\ key \in DOMAIN value.v
\* value[key] = x
Put(value, key, x) ==
    IF value.t = "obj" THEN JObj((key :> x) @@ value.v) ELSE JObj(key :> x)

is_null(value) == value.t = "null"
is_string(value) == value.t = "str"
is_object(value) == value.t = "obj"
is_array(value) == value.t = "arr"

(***************************************************************************)
(* apprentice_lib/src/config.rs: Config.  An Option is a record with its   *)
(* some flag; an f64 may be non-finite.                                    *)
(***************************************************************************)
None == [some |-> FALSE, finite |-> TRUE, v |-> 0]
Some(x) == [some |-> TRUE, finite |-> TRUE, v |-> x]
SomeNaN == [some |-> TRUE, finite |-> FALSE, v |-> 0]
NoneStr == [some |-> FALSE, finite |-> TRUE, v |-> <<>>]

Providers == {"OpenAI", "Anthropic", "GCP"}

Config_new(prov) ==
    [provider |-> prov, name |-> <<"<model-name>">>, api_key |-> <<"<api-key>">>,
     api_url |-> <<"<api-uri>">>, api_version |-> NoneStr, max_tokens |-> None,
     n |-> None, temperature |-> None, top_p |-> None, top_k |-> None,
     frequency_penalty |-> None, presence_penalty |-> None,
     stop_sequence |-> NoneStr]

(***************************************************************************)
(* apprentice_lib/src/llm/util.rs.                                         *)
(***************************************************************************)
RoleIndex(role) == CASE role = "System" -> 1 [] role = "Model" -> 2 [] role = "User" -> 3

role_to_llm(prov, role) ==
    CASE prov = "OpenAI" -> <<"system", "assistant", "user">>[RoleIndex(role)]
      [] prov = "Anthropic" -> <<"", "assistant", "user">>[RoleIndex(role)]
      [] prov = "GCP" -> <<"system", "model", "user">>[RoleIndex(role)]

LLMResponseError(msg) == LibErr("LLMResponseError", <<msg>>)

\* Mutant of llm_to_role: an unknown role is taken as the model's.
llm_to_role_default(role) ==
    CASE role = <<"system">> -> Ok("System")
      [] role = <<"user">> -> Ok("User")
      [] OTHER -> Ok("Model")

llm_to_role(role) ==
    CASE role = <<"system">> -> Ok("System")
      [] role \in {<<"model">>, <<"assistant">>} -> Ok("Model")
      [] role = <<"user">> -> Ok("User")
      [] OTHER -> Err(LLMResponseError("LLM returned message with an unknown role."))

\* val_as_str!(val, element)
val_as_str(value, element) ==
    IF is_string(value)
    THEN Ok(value.v)
    ELSE Err(LibErr("LLMResponseError",
                    <<"can't extract ", element, " from LLM API response.">>))

set_i64_param(pl, key, val) ==
    IF val.some THEN Put(pl, key, JNum(val.v)) ELSE pl

set_f64_param(pl, key, val) ==
    IF val.some /\ val.finite THEN Put(pl, key, JNum(val.v)) ELSE pl

\* tools/tool.rs: the Serialize of ParamType.
ParamType_serialize(data_type) ==
    CASE data_type = "String" -> <<"string">>
      [] data_type = "Integer" -> <<"integer">>
      [] data_type = "Number" -> <<"number">>
      [] data_type = "Boolean" -> <<"boolean">>

\* The for loop of tool_params_to_value from parameter i on: acc holds the
\* properties object and the required vector.
RECURSIVE tool_params_loop(_, _, _)
tool_params_loop(params, i, acc) ==
    IF i > Len(params)
    THEN acc
    ELSE LET param == params[i]
             prop == JObj([type |-> JStr(ParamType_serialize(param.data_type)),
                           description |-> JStr(param.description)])
         IN tool_params_loop(
                params, i + 1,
                [properties |-> Put(acc.properties, param.name, prop),
                 required |-> IF param.required
                              THEN Append(acc.required, JStr(<<param.name>>))
                              ELSE acc.required])

tool_params_to_value(params, prov) ==
    LET acc == tool_params_loop(params, 1, [properties |-> JEmptyObj, required |-> <<>>])
        base == JObj([type |-> JStr(<<"object">>), properties |-> acc.properties,
                      required |-> JArr(acc.required)])
    IN IF prov \in {"OpenAI", "Anthropic"}
       THEN Put(base, "additionalProperties", JBool(FALSE))
       ELSE base

(***************************************************************************)
(* The tool specifications the agent binds: shell.rs 13-34, help.rs 14-32. *)
(***************************************************************************)
ToolParamSpec(name, description, data_type, required) ==
    [name |-> name, description |-> description, data_type |-> data_type,
     required |-> required]

Shell_get_tool_spec ==
    [name |-> S_SHELL,
     description |->
        <<"Executes an arbitrary command in a Unix/Linux shell (sh) environment and returns its stdout and stderr.",
          " User may cancel execution of the command and will provide reason.">>,
     params |-> <<ToolParamSpec("command", <<"command to execute">>, "String", TRUE)>>]

Help_get_tool_spec ==
    [name |-> S_HELP,
     description |-> <<"Returns a help page for a specific CLI tool subcommand.">>,
     params |-> <<ToolParamSpec("command", <<"command for which the help is required">>,
                                "String", TRUE)>>]

\* agent.rs 29-32
AgentTools == <<Shell_get_tool_spec, Help_get_tool_spec>>

(***************************************************************************)
(* tools/tool.rs: ToolChoice.                                              *)
(***************************************************************************)
ToolChoice_None == [kind |-> "None", name |-> <<>>]
ToolChoice_Auto == [kind |-> "Auto", name |-> <<>>]
ToolChoice_CallOne == [kind |-> "CallOne", name |-> <<>>]
ToolChoice_Force(name) == [kind |-> "Force", name |-> name]

ToolChoices ==
    {ToolChoice_None, ToolChoice_Auto, ToolChoice_CallOne, ToolChoice_Force(S_SHELL)}

\* Mutant of check_for_error: the error envelope is not looked at.
check_for_error_skipped(resp) == Ok(<<>>)

\* check_for_error, the same in openai.rs 111-117, anthropic.rs 122-128 and
\* gcp.rs 128-134.
check_for_error(resp) ==
    IF HasKey(resp, "error")
    THEN LET errmes == val_as_str(Idx(Idx(resp, "error"), "message"), "error message") IN
         IF errmes.ok THEN Err(LibErr("LLMErrorMessage", errmes.val)) ELSE Err(errmes.err)
    ELSE Ok(<<>>)

\* serde_json::from_str on the argument strings the model draws from.
Args_ls == <<"{\"command\":\"ls\"}">>
Args_two == <<"{\"cwd\":\"/\",\"command\":\"ls\"}">>
Args_array == <<"[1]">>
Args_bad == <<"{command">>

from_str(text) ==
    CASE text = Args_ls -> Ok(JObj([command |-> JStr(<<"l", "s">>)]))
      [] text = Args_two ->
            Ok(JObj([command |-> JStr(<<"l", "s">>), cwd |-> JStr(<<"/">>)]))
      [] text = Args_array -> Ok(JArr(<<JNum(1)>>))
      [] OTHER -> Err(LibErr("LLMJsonError", <<"expected value">>))

\* The keys of an argument object in the order serde_json's Map iterates them.
KeyOrder == <<"command", "cwd">>
RECURSIVE object_params(_, _)
object_params(obj, i) ==
    IF i > Len(KeyOrder)
    THEN <<>>
    ELSE (IF KeyOrder[i] \in DOMAIN obj.v
          THEN <<InputParam(<<KeyOrder[i]>>, obj.v[KeyOrder[i]])>>
          ELSE <<>>) \o object_params(obj, i + 1)

(***************************************************************************)
(* apprentice_lib/src/llm/openai.rs.                                       *)
(***************************************************************************)
\* openai.rs 38-51: the for loop of prep_payload from message i on.
RECURSIVE OpenAI_push_messages(_, _, _, _)
\* Mutant of OpenAI_push_messages: a ToolCall of the input is pushed as an
\* assistant message with that call.
RECURSIVE OpenAI_push_messages_with_calls(_, _, _, _)
OpenAI_push_messages_with_calls(cfg, hist, messages, i) ==
    IF i > Len(messages)
    THEN hist
    ELSE LET m == messages[i]
             h == CASE m.type = "Text" ->
                         Append(hist,
                                JObj([role |-> JStr(<<role_to_llm(cfg.provider, m.role)>>),
                                      content |-> JStr(m.message)]))
                    [] m.type = "ToolResult" ->
                         Append(hist,
                                JObj([role |-> JStr(<<"tool">>),
                                      content |-> JStr(m.result),
                                      tool_call_id |-> JStr(m.call_id)]))
                    [] OTHER ->
                         Append(hist,
                                JObj([role |-> JStr(<<"assistant">>),
                                      tool_calls |->
                                         JArr(<<JObj([id |-> JStr(m.call_id)])>>)]))
         IN OpenAI_push_messages_with_calls(cfg, h, messages, i + 1)

OpenAI_push_messages(cfg, hist, messages, i) ==
    IF i > Len(messages)
    THEN hist
    ELSE LET m == messages[i]
             h == CASE m.type = "Text" ->
                         Append(hist,
                                JObj([role |-> JStr(<<role_to_llm(cfg.provider, m.role)>>),
                                      content |-> JStr(m.message)]))
                    [] m.type = "ToolResult" ->
                         Append(hist,
                                JObj([role |-> JStr(<<"tool">>),
                                      content |-> JStr(m.result),
                                      tool_call_id |-> JStr(m.call_id)]))
                    [] OTHER -> hist
         IN OpenAI_push_messages(cfg, h, messages, i + 1)

RECURSIVE OpenAI_tools_array(_, _, _)
OpenAI_tools_array(specs, cfg, i) ==
    IF i > Len(specs)
    THEN <<>>
    ELSE <<JObj([type |-> JStr(<<"function">>),
                 function |->
                    JObj([description |-> JStr(specs[i].description),
                          name |-> JStr(specs[i].name),
                          parameters |->
                              tool_params_to_value(specs[i].params, cfg.provider),
                          strict |-> JBool(TRUE)])])>>
         \o OpenAI_tools_array(specs, cfg, i + 1)

OpenAI_add_tools(pl, specs, cfg) ==
    Put(pl, "tools", JArr(OpenAI_tools_array(specs, cfg, 1)))

OpenAI_prep_tool_use(pl, specs, cfg, tools) ==
    LET p == CASE tools.kind = "None" -> pl
               [] tools.kind = "Auto" ->
                    OpenAI_add_tools(Put(pl, "tool_choice", JStr(<<"auto">>)), specs, cfg)
               [] tools.kind = "CallOne" ->
                    OpenAI_add_tools(Put(pl, "tool_choice", JStr(<<"required">>)),
                                     specs, cfg)
               [] tools.kind = "Force" ->
                    OpenAI_add_tools(
                        Put(pl, "tool_choice",
                            JObj([type |-> JStr(<<"function">>),
                                  function |-> JObj([name |-> JStr(tools.name)])])),
                        specs, cfg)
    IN Put(p, "parallel_tool_calls", JBool(FALSE))

OpenAI_prep_payload(cfg, hist, specs, messages, tools) ==
    LET h == OpenAI_push_messages(cfg, hist, messages, 1)
        p0 == JObj([model |-> JStr(cfg.name)])
        p1 == Put(p0, "messages", JArr(h))
        p2 == set_f64_param(p1, "frequency_penalty", cfg.frequency_penalty)
        p3 == set_f64_param(p2, "presence_penalty", cfg.presence_penalty)
        p4 == set_i64_param(p3, "n", cfg.n)
        p5 == set_f64_param(p4, "top_p", cfg.top_p)
        p6 == set_f64_param(p5, "temperature", cfg.temperature)
        p7 == set_i64_param(p6, "max_completion_tokens", cfg.max_tokens)
        p8 == IF cfg.stop_sequence.some
              THEN Put(p7, "stop", JStr(cfg.stop_sequence.v))
              ELSE p7
    IN [history |-> h, payload |-> OpenAI_prep_tool_use(p8, specs, cfg, tools)]

\* openai.rs 148-165: one element of tool_calls.
OpenAI_tool_call(call) ==
    LET call_id == val_as_str(Idx(call, "id"), "tool call id")
        name == val_as_str(Idx(Idx(call, "function"), "name"), "tool name")
        arguments == val_as_str(Idx(Idx(call, "function"), "arguments"), "tool arguments")
    IN IF ~call_id.ok THEN Err(call_id.err)
       ELSE IF ~name.ok THEN Err(name.err)
       ELSE IF ~arguments.ok THEN Err(arguments.err)
       ELSE LET args_obj == from_str(arguments.val) IN
            IF ~args_obj.ok THEN Err(args_obj.err)
            ELSE IF ~is_object(args_obj.val)
                 THEN Err(LLMResponseError("can't enumerate arguments."))
                 ELSE Ok(<<Message_tool_use(call_id.val, name.val,
                                            object_params(args_obj.val, 1))>>)

\* openai.rs 145-166: the for loop over tool_calls from call i on.
RECURSIVE OpenAI_tool_calls(_, _, _)
OpenAI_tool_calls(tcalls, i, acc) ==
    IF i > Len(tcalls)
    THEN Ok(acc)
    ELSE LET c == OpenAI_tool_call(tcalls[i]) IN
         IF ~c.ok THEN Err(c.err)
         ELSE OpenAI_tool_calls(tcalls, i + 1, acc \o c.val)

\* openai.rs 132-167: the messages of one choice, after it was pushed.
OpenAI_choice_messages(msg) ==
    LET role_str == val_as_str(Idx(msg, "role"), "message role") IN
    IF ~role_str.ok THEN Err(role_str.err)
    ELSE
    LET role == llm_to_role(role_str.val) IN
    IF ~role.ok THEN Err(role.err)
    ELSE
    LET content == val_as_str(Idx(msg, "content"), "message content")
        refusal == val_as_str(Idx(msg, "refusal"), "refusal content")
    IN
    IF ~is_null(Idx(msg, "content")) /\ ~content.ok THEN Err(content.err)
    ELSE IF ~is_null(Idx(msg, "refusal")) /\ ~refusal.ok THEN Err(refusal.err)
    ELSE
    LET texts ==
            (IF ~is_null(Idx(msg, "content"))
             THEN <<Message_text(role.val, content.val)>> ELSE <<>>)
            \o (IF ~is_null(Idx(msg, "refusal"))
                THEN <<Message_text(role.val, refusal.val)>> ELSE <<>>)
    IN
    IF is_null(Idx(msg, "tool_calls")) THEN Ok(texts)
    ELSE IF ~is_array(Idx(msg, "tool_calls"))
         THEN Err(LLMResponseError(
                      "unexpected answer format, can't enumerate tool call requests."))
         ELSE OpenAI_tool_calls(Idx(msg, "tool_calls").v, 1, texts)

\* openai.rs 125-168: the for loop over choices from choice i on.
RECURSIVE OpenAI_choices(_, _, _, _)
OpenAI_choices(choices, i, hist, acc) ==
    IF i > Len(choices)
    THEN [history |-> hist, result |-> Ok(acc)]
    ELSE LET msg == Idx(choices[i], "message")
             h == Append(hist, msg)
             ms == OpenAI_choice_messages(msg)
         IN IF ~ms.ok
            THEN [history |-> h, result |-> Err(ms.err)]
            ELSE OpenAI_choices(choices, i + 1, h, acc \o ms.val)

OpenAI_process_response(hist, resp) ==
    LET chk == check_for_error(resp) IN
    IF ~chk.ok
    THEN [history |-> hist, result |-> Err(chk.err)]
    ELSE IF ~is_array(Idx(resp, "choices"))
         THEN [history |-> hist,
               result |-> Err(LLMResponseError(
                       "unexpected answer format, can't enumerate response messages."))]
         ELSE OpenAI_choices(Idx(resp, "choices").v, 1, hist, <<>>)

\* openai.rs 176-185.  tr is what make_json_request returns.
OpenAI_get_inference(cfg, hist, specs, messages, tools, tr) ==
    LET pp == OpenAI_prep_payload(cfg, hist, specs, messages, tools) IN
    IF ~tr.ok
    THEN [history |-> pp.history, payload |-> pp.payload, result |-> Err(tr.err)]
    ELSE LET pr == OpenAI_process_response(pp.history, tr.val) IN
         [history |-> pr.history, payload |-> pp.payload, result |-> pr.result]

\* openai.rs 187-189
OpenAI_clear_history(hist) == <<>>

\* openai.rs 191-203: the history after set_system_prompt.
OpenAI_set_system_prompt(hist, prompt) ==
    LET val == JObj([role |-> JStr(<<"system">>), content |-> JStr(prompt)]) IN
    IF hist = <<>> THEN <<val>> ELSE [hist EXCEPT ![1] = val]

(***************************************************************************)
(* apprentice_lib/src/llm/anthropic.rs.                                    *)
(***************************************************************************)
\* Mutant of Anthropic_new: only the api version is required.
Anthropic_new_version_only(cfg) ==
    IF ~cfg.api_version.some
    THEN Err(LibErr("MissingArgError", <<"api-version is mandatory for anthropic.">>))
    ELSE Ok(<<>>)

\* anthropic.rs 22-37: AnthropicChat::new.
Anthropic_new(cfg) ==
    IF ~cfg.api_version.some
    THEN Err(LibErr("MissingArgError", <<"api-version is mandatory for anthropic.">>))
    ELSE IF ~cfg.max_tokens.some
         THEN Err(LibErr("MissingArgError", <<"max-tokens is mandatory for anthropic.">>))
         ELSE Ok(<<>>)

\* anthropic.rs 41-59: the for loop of prep_payload from message i on.
RECURSIVE Anthropic_push_messages(_, _, _, _)
Anthropic_push_messages(cfg, hist, messages, i) ==
    IF i > Len(messages)
    THEN hist
    ELSE LET m == messages[i]
             h == CASE m.type = "Text" ->
                         Append(hist,
                                JObj([role |-> JStr(<<role_to_llm(cfg.provider, m.role)>>),
                                      content |-> JStr(m.message)]))
                    [] m.type = "ToolResult" ->
                         Append(hist,
                                JObj([role |-> JStr(<<role_to_llm(cfg.provider, "User")>>),
                                      content |->
                                         JArr(<<JObj([type |-> JStr(<<"tool_result">>),
                                                      tool_use_id |-> JStr(m.call_id),
                                                      content |-> JStr(m.result)])>>)]))
                    [] OTHER -> hist
         IN Anthropic_push_messages(cfg, h, messages, i + 1)

RECURSIVE Anthropic_tools_array(_, _, _)
Anthropic_tools_array(specs, cfg, i) ==
    IF i > Len(specs)
    THEN <<>>
    ELSE <<JObj([description |-> JStr(specs[i].description),
                 name |-> JStr(specs[i].name),
                 input_schema |-> tool_params_to_value(specs[i].params, cfg.provider)])>>
         \o Anthropic_tools_array(specs, cfg, i + 1)

Anthropic_add_tools(pl, specs, cfg) ==
    Put(pl, "tools", JArr(Anthropic_tools_array(specs, cfg, 1)))

Anthropic_prep_tool_use(pl, specs, cfg, tools) ==
    CASE tools.kind = "None" -> pl
      [] tools.kind = "Auto" ->
            Anthropic_add_tools(
                Put(pl, "tool_choice",
                    JObj([type |-> JStr(<<"auto">>),
                          disable_parallel_tool_use |-> JBool(TRUE)])),
                specs, cfg)
      [] tools.kind = "CallOne" ->
            Anthropic_add_tools(
                Put(pl, "tool_choice",
                    JObj([type |-> JStr(<<"any">>),
                          disable_parallel_tool_use |-> JBool(TRUE)])),
                specs, cfg)
      [] tools.kind = "Force" ->
            Anthropic_add_tools(
                Put(pl, "tool_choice",
                    JObj([type |-> JStr(<<"tool">>),
                          name |-> JStr(tools.name),
                          disable_parallel_tool_use |-> JBool(TRUE)])),
                specs, cfg)

Anthropic_prep_payload(cfg, sys, hist, specs, messages, tools) ==
    LET h == Anthropic_push_messages(cfg, hist, messages, 1)
        p0 == JObj([model |-> JStr(cfg.name), system |-> JStr(sys)])
        p1 == Put(p0, "messages", JArr(h))
        p2 == set_i64_param(p1, "max_tokens", cfg.max_tokens)
        p3 == set_f64_param(p2, "top_p", cfg.top_p)
        p4 == set_i64_param(p3, "top_k", cfg.top_k)
        p5 == set_f64_param(p4, "temperature", cfg.temperature)
        p6 == IF cfg.stop_sequence.some
              THEN Put(p5, "stop_sequences", JArr(<<JStr(cfg.stop_sequence.v)>>))
              ELSE p5
    IN [history |-> h, payload |-> Anthropic_prep_tool_use(p6, specs, cfg, tools)]

\* anthropic.rs 148-175: the message of one content fragment.
Anthropic_fragment(msg, role) ==
    LET msg_type == val_as_str(Idx(msg, "type"), "message type") IN
    IF ~msg_type.ok THEN Err(msg_type.err)
    ELSE IF msg_type.val = <<"text">>
    THEN LET text == val_as_str(Idx(msg, "text"), "text") IN
         IF ~text.ok THEN Err(text.err) ELSE Ok(<<Message_text(role, text.val)>>)
    ELSE IF msg_type.val = <<"tool_use">>
    THEN LET call_id == val_as_str(Idx(msg, "id"), "tool call id")
             name == val_as_str(Idx(msg, "name"), "tool name")
         IN IF ~call_id.ok THEN Err(call_id.err)
            ELSE IF ~name.ok THEN Err(name.err)
            ELSE IF ~is_object(Idx(msg, "input"))
                 THEN Err(LLMResponseError("can't enumerate tool call parameters."))
                 ELSE Ok(<<Message_tool_use(call_id.val, name.val,
                                            object_params(Idx(msg, "input"), 1))>>)
    ELSE Err(LLMResponseError("unexpected message type."))

\* anthropic.rs 139-176: the for loop over content from fragment i on.
RECURSIVE Anthropic_content(_, _, _, _, _)
\* Mutant of Anthropic_content: tool_use fragments are not kept in the history.
RECURSIVE Anthropic_content_drops_tool_use(_, _, _, _, _)
Anthropic_content_drops_tool_use(resp, i, role, hist, acc) ==
    IF i > Len(Idx(resp, "content").v)
    THEN [history |-> hist, result |-> Ok(acc)]
    ELSE LET msg == Idx(resp, "content").v[i]
             h == IF Idx(msg, "type") = JStr(<<"tool_use">>)
                  THEN hist
                  ELSE Append(hist, JObj([role |-> Idx(resp, "role"),
                                          content |-> JArr(<<msg>>)]))
             ms == Anthropic_fragment(msg, role)
         IN IF ~ms.ok
            THEN [history |-> h, result |-> Err(ms.err)]
            ELSE Anthropic_content_drops_tool_use(resp, i + 1, role, h, acc \o ms.val)

\* Mutant of Anthropic_content: the entry of a fragment is put in front of
\* the history.
RECURSIVE Anthropic_content_in_front(_, _, _, _, _)
Anthropic_content_in_front(resp, i, role, hist, acc) ==
    IF i > Len(Idx(resp, "content").v)
    THEN [history |-> hist, result |-> Ok(acc)]
    ELSE LET msg == Idx(resp, "content").v[i]
             h == <<JObj([role |-> Idx(resp, "role"), content |-> JArr(<<msg>>)])>>
                  \o hist
             ms == Anthropic_fragment(msg, role)
         IN IF ~ms.ok
            THEN [history |-> h, result |-> Err(ms.err)]
            ELSE Anthropic_content_in_front(resp, i + 1, role, h, acc \o ms.val)

Anthropic_content(resp, i, role, hist, acc) ==
    IF i > Len(Idx(resp, "content").v)
    THEN [history |-> hist, result |-> Ok(acc)]
    ELSE LET msg == Idx(resp, "content").v[i]
             h == Append(hist, JObj([role |-> Idx(resp, "role"),
                                     content |-> JArr(<<msg>>)]))
             ms == Anthropic_fragment(msg, role)
         IN IF ~ms.ok
            THEN [history |-> h, result |-> Err(ms.err)]
            ELSE Anthropic_content(resp, i + 1, role, h, acc \o ms.val)

Anthropic_process_response(hist, resp) ==
    LET chk == check_for_error(resp) IN
    IF ~chk.ok THEN [history |-> hist, result |-> Err(chk.err)]
    ELSE
    LET role_str == val_as_str(Idx(resp, "role"), "role") IN
    IF ~role_str.ok THEN [history |-> hist, result |-> Err(role_str.err)]
    ELSE
    LET role == llm_to_role(role_str.val) IN
    IF ~role.ok THEN [history |-> hist, result |-> Err(role.err)]
    ELSE IF ~is_array(Idx(resp, "content"))
         THEN [history |-> hist,
               result |-> Err(LLMResponseError("can't enumerate messages in the response."))]
         ELSE Anthropic_content(resp, 1, role.val, hist, <<>>)

\* anthropic.rs 184-197
Anthropic_get_inference(cfg, sys, hist, specs, messages, tools, tr) ==
    LET pp == Anthropic_prep_payload(cfg, sys, hist, specs, messages, tools) IN
    IF ~tr.ok
    THEN [history |-> pp.history, payload |-> pp.payload, result |-> Err(tr.err)]
    ELSE LET pr == Anthropic_process_response(pp.history, tr.val) IN
         [history |-> pr.history, payload |-> pp.payload, result |-> pr.result]

\* anthropic.rs 199-201
Anthropic_clear_history(hist) == <<>>

(***************************************************************************)
(* apprentice_lib/src/llm/gcp.rs.                                          *)
(***************************************************************************)
\* gcp.rs 41-61: the for loop of prep_payload from message i on.
RECURSIVE Gcp_push_messages(_, _, _, _)
Gcp_push_messages(cfg, hist, messages, i) ==
    IF i > Len(messages)
    THEN hist
    ELSE LET m == messages[i]
             h == CASE m.type = "Text" ->
                         Append(hist,
                                JObj([role |-> JStr(<<role_to_llm(cfg.provider, m.role)>>),
                                      parts |-> JArr(<<JObj([text |-> JStr(m.message)])>>)]))
                    [] m.type = "ToolResult" ->
                         Append(hist,
                                JObj([role |-> JStr(<<"user">>),
                                      parts |->
                                        JArr(<<JObj([functionResponse |->
                                                 JObj([name |-> JStr(m.name),
                                                       response |->
                                                          JObj([name |-> JStr(m.name),
                                                                content |-> JStr(m.result)])
                                                      ])])>>)]))
                    [] OTHER -> hist
         IN Gcp_push_messages(cfg, h, messages, i + 1)

RECURSIVE Gcp_declarations(_, _, _)
Gcp_declarations(specs, cfg, i) ==
    IF i > Len(specs)
    THEN <<>>
    ELSE <<JObj([name |-> JStr(specs[i].name),
                 description |-> JStr(specs[i].description),
                 parameters |-> tool_params_to_value(specs[i].params, cfg.provider)])>>
         \o Gcp_declarations(specs, cfg, i + 1)

Gcp_add_tools(pl, specs, cfg) ==
    Put(pl, "tools",
        JArr(<<JObj([function_declarations |-> JArr(Gcp_declarations(specs, cfg, 1))])>>))

Gcp_prep_tool_use(pl, specs, cfg, tools) ==
    CASE tools.kind = "None" -> pl
      [] tools.kind = "Auto" ->
            Gcp_add_tools(
                Put(pl, "tool_config",
                    JObj([function_calling_config |-> JObj([mode |-> JStr(<<"AUTO">>)])])),
                specs, cfg)
      [] tools.kind = "CallOne" ->
            Gcp_add_tools(
                Put(pl, "tool_config",
                    JObj([function_calling_config |-> JObj([mode |-> JStr(<<"ANY">>)])])),
                specs, cfg)
      [] tools.kind = "Force" ->
            Gcp_add_tools(
                Put(pl, "tool_config",
                    JObj([function_calling_config |->
                            JObj([mode |-> JStr(<<"ANY">>),
                                  allowed_function_names |->
                                      JArr(<<JStr(tools.name)>>)])])),
                specs, cfg)

\* Mutant of Gcp_prep_payload: only the entries of this call are sent.
Gcp_prep_payload_new_only(cfg, sys, hist, specs, messages, tools) ==
    LET p0 == JObj([systemInstruction |-> JObj([parts |-> JObj([text |-> JStr(sys)])])])
        h == Gcp_push_messages(cfg, hist, messages, 1)
        p1 == Put(p0, "contents", JArr(SubSeq(h, Len(hist) + 1, Len(h))))
        p2 == Put(p1, "generationConfig", JEmptyObj)
    IN [history |-> h, payload |-> Gcp_prep_tool_use(p2, specs, cfg, tools)]

Gcp_prep_payload(cfg, sys, hist, specs, messages, tools) ==
    LET p0 == JObj([systemInstruction |-> JObj([parts |-> JObj([text |-> JStr(sys)])])])
        h == Gcp_push_messages(cfg, hist, messages, 1)
        p1 == Put(p0, "contents", JArr(h))
        g0 == JEmptyObj
        g1 == set_i64_param(g0, "maxOutputTokens", cfg.max_tokens)
        g2 == set_f64_param(g1, "topP", cfg.top_p)
        g3 == set_i64_param(g2, "topK", cfg.top_k)
        g4 == set_f64_param(g3, "temperature", cfg.temperature)
        g5 == set_f64_param(g4, "presencePenalty", cfg.presence_penalty)
        g6 == set_f64_param(g5, "frequencyPenalty", cfg.frequency_penalty)
        g7 == IF cfg.stop_sequence.some
              THEN Put(g6, "stopSequences", JArr(<<JStr(cfg.stop_sequence.v)>>))
              ELSE g6
        p2 == Put(p1, "generationConfig", g7)
    IN [history |-> h, payload |-> Gcp_prep_tool_use(p2, specs, cfg, tools)]

\* gcp.rs 154-174: the message of one part.
Gcp_part(part, role) ==
    IF is_object(Idx(part, "functionCall"))
    THEN LET name == val_as_str(Idx(Idx(part, "functionCall"), "name"), "tool name") IN
         IF ~name.ok THEN Err(name.err)
         ELSE IF ~is_object(Idx(Idx(part, "functionCall"), "args"))
              THEN Err(LLMResponseError("can't enumerate tool call parameters."))
              ELSE Ok(<<Message_tool_use(
                            <<>>, name.val,
                            object_params(Idx(Idx(part, "functionCall"), "args"), 1))>>)
    ELSE IF is_string(Idx(part, "text"))
         THEN Ok(<<Message_text(role, Idx(part, "text").v)>>)
         ELSE Err(LLMResponseError("unexpected message type."))

\* gcp.rs 150-175: the for loop over the parts of a candidate from part i on.
RECURSIVE Gcp_parts(_, _, _, _)
\* Mutant of Gcp_parts: the tool calls of a candidate are put before its texts.
RECURSIVE Gcp_parts_tools_first(_, _, _, _)
Gcp_parts_tools_first(parts, i, role, acc) ==
    IF i > Len(parts)
    THEN Ok(acc)
    ELSE LET ms == Gcp_part(parts[i], role) IN
         IF ~ms.ok THEN Err(ms.err)
         ELSE IF ms.val[1].type = "ToolCall"
              THEN Gcp_parts_tools_first(parts, i + 1, role, ms.val \o acc)
              ELSE Gcp_parts_tools_first(parts, i + 1, role, acc \o ms.val)

Gcp_parts(parts, i, role, acc) ==
    IF i > Len(parts)
    THEN Ok(acc)
    ELSE LET ms == Gcp_part(parts[i], role) IN
         IF ~ms.ok THEN Err(ms.err)
         ELSE Gcp_parts(parts, i + 1, role, acc \o ms.val)

\* gcp.rs 142-176: the for loop over candidates from candidate i on.
RECURSIVE Gcp_candidates(_, _, _, _)
Gcp_candidates(cands, i, hist, acc) ==
    IF i > Len(cands)
    THEN [history |-> hist, result |-> Ok(acc)]
    ELSE LET content == Idx(cands[i], "content")
             h == Append(hist, content)
             role_str == val_as_str(Idx(content, "role"), "message role")
         IN IF ~role_str.ok THEN [history |-> h, result |-> Err(role_str.err)]
            ELSE
            LET role == llm_to_role(role_str.val) IN
            IF ~role.ok THEN [history |-> h, result |-> Err(role.err)]
            ELSE IF ~is_array(Idx(content, "parts"))
            THEN [history |-> h,
                  result |-> Err(LLMResponseError(
                        "unexpected answer format, can't enumerate message parts."))]
            ELSE LET ms == Gcp_parts(Idx(content, "parts").v, 1, role.val, acc) IN
                 IF ~ms.ok THEN [history |-> h, result |-> Err(ms.err)]
                 ELSE Gcp_candidates(cands, i + 1, h, ms.val)

Gcp_process_response(hist, resp) ==
    LET chk == check_for_error(resp) IN
    IF ~chk.ok THEN [history |-> hist, result |-> Err(chk.err)]
    ELSE IF ~is_array(Idx(resp, "candidates"))
         THEN [history |-> hist,
               result |-> Err(LLMResponseError("can't enumerate messages in the response."))]
         ELSE Gcp_candidates(Idx(resp, "candidates").v, 1, hist, <<>>)

\* gcp.rs 184-193
Gcp_get_inference(cfg, sys, hist, specs, messages, tools, tr) ==
    LET pp == Gcp_prep_payload(cfg, sys, hist, specs, messages, tools) IN
    IF ~tr.ok
    THEN [history |-> pp.history, payload |-> pp.payload, result |-> Err(tr.err)]
    ELSE LET pr == Gcp_process_response(pp.history, tr.val) IN
         [history |-> pr.history, payload |-> pp.payload, result |-> pr.result]

\* gcp.rs 195-197
Gcp_clear_history(hist) == <<>>

(***************************************************************************)
(* llmchat.rs: the LLMChat trait object get_llm_chat returns, dispatched   *)
(* on config.provider.                                                     *)
(***************************************************************************)
\* llmchat.rs 37-43
get_llm_chat(cfg) ==
    IF cfg.provider = "Anthropic" THEN Anthropic_new(cfg) ELSE Ok(<<>>)

LLMChat_get_inference(cfg, sys, hist, specs, messages, tools, tr) ==
    CASE cfg.provider = "OpenAI" ->
            OpenAI_get_inference(cfg, hist, specs, messages, tools, tr)
      [] cfg.provider = "Anthropic" ->
            Anthropic_get_inference(cfg, sys, hist, specs, messages, tools, tr)
      [] cfg.provider = "GCP" ->
            Gcp_get_inference(cfg, sys, hist, specs, messages, tools, tr)

LLMChat_clear_history(cfg, hist) ==
    CASE cfg.provider = "OpenAI" -> OpenAI_clear_history(hist)
      [] cfg.provider = "Anthropic" -> Anthropic_clear_history(hist)
      [] cfg.provider = "GCP" -> Gcp_clear_history(hist)

\* The history after set_system_prompt: anthropic.rs 203-205 and gcp.rs
\* 199-201 only store the prompt.
LLMChat_set_system_prompt(cfg, hist, prompt) ==
    IF cfg.provider = "OpenAI" THEN OpenAI_set_system_prompt(hist, prompt) ELSE hist

(***************************************************************************)
(* What the transport can hand back: Client is a trait, so any JSON value  *)
(* or a call error.  The vendor responses the model draws from.            *)
(***************************************************************************)
T_hi == <<"hi there">>
T_rate_limited == <<"rate limited">>
T_overloaded == <<"overloaded">>

ErrorEnvelope(text) == JObj([message |-> JStr(text)])

OpenAI_choice(msg) == JObj([index |-> JNum(0), message |-> msg])
OpenAI_msg_text == JObj([role |-> JStr(<<"assistant">>), content |-> JStr(T_hi)])
OpenAI_msg_tool ==
    JObj([role |-> JStr(<<"assistant">>), content |-> JNull,
          tool_calls |->
             JArr(<<JObj([id |-> JStr(<<"call_1">>), type |-> JStr(<<"function">>),
                          function |-> JObj([name |-> JStr(S_SHELL),
                                             arguments |-> JStr(Args_ls)])])>>)])
OpenAI_msg_bad_role == JObj([role |-> JStr(<<"bot">>), content |-> JStr(T_hi)])

OpenAI_responses ==
    {JObj([error |-> ErrorEnvelope(T_rate_limited)]),
     JObj([error |-> ErrorEnvelope(T_overloaded),
           choices |-> JArr(<<OpenAI_choice(OpenAI_msg_text)>>)]),
     JObj([error |-> JObj([message |-> JNum(429)])]),
     JObj([choices |-> JArr(<<OpenAI_choice(OpenAI_msg_text)>>)]),
     JObj([choices |-> JArr(<<OpenAI_choice(OpenAI_msg_tool)>>)]),
     JObj([choices |-> JArr(<<OpenAI_choice(OpenAI_msg_bad_role)>>)])}

Anthropic_text == JObj([type |-> JStr(<<"text">>), text |-> JStr(T_hi)])
Anthropic_tool_use ==
    JObj([type |-> JStr(<<"tool_use">>), id |-> JStr(<<"call_1">>),
          name |-> JStr(S_SHELL), input |-> JObj([command |-> JStr(<<"l", "s">>)])])
Anthropic_image == JObj([type |-> JStr(<<"image">>)])
Anthropic_message(content) ==
    JObj([type |-> JStr(<<"message">>), role |-> JStr(<<"assistant">>),
          content |-> JArr(content)])

Anthropic_responses ==
    {JObj([type |-> JStr(<<"error">>), error |-> ErrorEnvelope(T_rate_limited)]),
     Put(Anthropic_message(<<Anthropic_text>>), "error", ErrorEnvelope(T_overloaded)),
     JObj([type |-> JStr(<<"error">>), error |-> JStr(T_rate_limited)]),
     Anthropic_message(<<Anthropic_text>>),
     Anthropic_message(<<Anthropic_text, Anthropic_tool_use>>),
     Anthropic_message(<<Anthropic_image>>),
     Put(Anthropic_message(<<Anthropic_text>>), "role", JStr(<<"bot">>))}

Gcp_candidate(role, parts) ==
    JObj([content |-> JObj([role |-> JStr(role), parts |-> JArr(parts)])])
Gcp_text == JObj([text |-> JStr(T_hi)])
Gcp_functionCall(name) ==
    JObj([functionCall |->
            JObj([name |-> JStr(name), args |-> JObj([command |-> JStr(<<"l", "s">>)])])])

Gcp_responses ==
    {JObj([error |-> ErrorEnvelope(T_rate_limited)]),
     JObj([error |-> ErrorEnvelope(T_overloaded),
           candidates |-> JArr(<<Gcp_candidate(<<"model">>, <<Gcp_text>>)>>)]),
     JObj([error |-> JObj([code |-> JNum(400)])]),
     JObj([candidates |-> JArr(<<Gcp_candidate(<<"model">>, <<Gcp_text>>)>>)]),
     JObj([candidates |->
             JArr(<<Gcp_candidate(<<"model">>,
                                  <<Gcp_functionCall(S_SHELL), Gcp_functionCall(S_HELP)>>)>>)]),
     JObj([candidates |-> JArr(<<Gcp_candidate(<<"bot">>, <<Gcp_text>>)>>)])}

VendorResponses(prov) ==
    CASE prov = "OpenAI" -> OpenAI_responses
      [] prov = "Anthropic" -> Anthropic_responses
      [] prov = "GCP" -> Gcp_responses

\* request/reqwest.rs: make_json_request gives the parsed body or the
\* reqwest error as Error::LLMCallError.
Transports(prov) ==
    {Ok(r) : r \in VendorResponses(prov)}
    \cup {Err(LibErr("LLMCallError", <<"connection refused">>))}

ChatTransports == [prov \in Providers |-> Transports(prov)]

\* The transport outcomes without an error envelope.
PayloadTransports ==
    [prov \in Providers |->
        {tr \in Transports(prov) : ~tr.ok \/ ~HasKey(tr.val, "error")}]

\* The message lists given to get_inference.
ChatInputs ==
    {<<Message_text("User", T_hi)>>,
     <<Message_tool_result(<<"call_1">>, S_SHELL, <<"out">>)>>,
     <<Message_tool_use(<<"call_1">>, S_SHELL, <<>>), Message_text("User", T_hi)>>}

SystemPrompts == {<<"be brief">>, <<"be kind">>}

\* Config::new with the optional parameters the command line sets.
Config_set(prov) ==
    [Config_new(prov) EXCEPT
        !.api_version = [some |-> TRUE, finite |-> TRUE, v |-> <<"2023-06-01">>],
        !.max_tokens = Some(100), !.n = Some(1), !.temperature = Some(1),
        !.top_p = Some(1), !.top_k = Some(40), !.frequency_penalty = Some(0),
        !.presence_penalty = Some(0),
        !.stop_sequence = [some |-> TRUE, finite |-> TRUE, v |-> <<"STOP">>]]

ChatConfigs == {Config_set(prov) : prov \in Providers}
\* Anthropic configurations that lack one of the two mandatory fields.
Anthropic_incomplete ==
    {[Config_set("Anthropic") EXCEPT !.api_version = NoneStr],
     [Config_set("Anthropic") EXCEPT !.max_tokens = None]}

PayloadConfigs ==
    ChatConfigs \cup {Config_new(prov) : prov \in Providers} \cup Anthropic_incomplete

(***************************************************************************)
(* A chat session: the three operations of LLMChat on one adapter, in any  *)
(* order.  op is the operation that ran last, transport what the client    *)
(* returned to it, result what it returned.                                *)
(***************************************************************************)
MaxRequests == 2          \* get_inference calls of one chat session
MaxPayloadRequests == 1   \* get_inference calls of one payload session

AgentIdle ==
    /\ goal = "Gcp"
    /\ message = NoString
    /\ pc = "idle"
    /\ next_message = NoMessage
    /\ tool_call = NoMessage
    /\ command = NoString
    /\ response = Ok(<<>>)
    /\ calls = 0
    /\ events = <<>>
    /\ execs = 0
    /\ run_result = NotReturned

\* get_llm_chat on one of configs; the adapters start with an empty prompt
\* and an empty history.
ChatNew(configs) ==
    /\ config \in configs
    /\ tool_choice = ToolChoice_None
    /\ system_prompt = <<>>
    /\ history = <<>>
    /\ payload = JNull
    /\ transport = Ok(JNull)
    /\ result = get_llm_chat(config)
    /\ op = "new"
    /\ requests = 0
    /\ AgentIdle
    /\ ExecIdle

\* get_llm_chat returned a chat.
Constructed == ~(op = "new" /\ ~result.ok)

\* get_inference with one of the message lists of inputs, one of the tool
\* choices and one of the transport outcomes trs gives for the provider,
\* fewer than bound calls so far.
ChatGetInference(inputs, choices, trs, bound) ==
    /\ Constructed
    /\ requests < bound
    /\ \E messages \in inputs, tools \in choices, tr \in trs[config.provider] :
          LET r == LLMChat_get_inference(config, system_prompt, history, AgentTools,
                                         messages, tools, tr)
          IN /\ history' = r.history
             /\ payload' = r.payload
             /\ result' = r.result
             /\ transport' = tr
             /\ tool_choice' = tools
    /\ op' = "get_inference"
    /\ requests' = requests + 1
    /\ UNCHANGED <<exec_vars, config, system_prompt, agent_vars>>

\* agent.rs 54, 69: the agent always asks with ToolChoice::Auto.
GetInference ==
    ChatGetInference(ChatInputs, {ToolChoice_Auto}, ChatTransports, MaxRequests)

PayloadGetInference ==
    ChatGetInference(ChatInputs, ToolChoices, PayloadTransports, MaxPayloadRequests)

SetSystemPrompt ==
    /\ Constructed
    /\ \E prompt \in SystemPrompts :
          /\ system_prompt' = prompt
          /\ history' = LLMChat_set_system_prompt(config, history, prompt)
    /\ op' = "set_system_prompt"
    /\ result' = Ok(<<>>)
    /\ UNCHANGED <<exec_vars, config, tool_choice, payload, transport, requests, agent_vars>>

ClearHistory ==
    /\ Constructed
    /\ history' = LLMChat_clear_history(config, history)
    /\ op' = "clear_history"
    /\ result' = Ok(<<>>)
    /\ UNCHANGED <<exec_vars, config, tool_choice, system_prompt, payload, transport, requests,
                   agent_vars>>

ChatInit == ChatNew(ChatConfigs)

ChatNext ==
    \/ GetInference
    \/ SetSystemPrompt
    \/ ClearHistory

SpecChat == ChatInit /\ [][ChatNext]_vars

PayloadInit == ChatNew(PayloadConfigs)

PayloadNext ==
    \/ PayloadGetInference
    \/ SetSystemPrompt
    \/ ClearHistory

SpecPayload == PayloadInit /\ [][PayloadNext]_vars

(***************************************************************************)
(* Claims about the chat adapters.                                         *)
(***************************************************************************)
IsPrefix(a, b) == Len(a) <= Len(b) /\ SubSeq(b, 1, Len(a)) = a

\* The history a payload replays: "contents" for GCP, "messages" otherwise.
Replayed(pl) ==
    IF HasKey(pl, "contents") THEN Idx(pl, "contents").v ELSE Idx(pl, "messages").v

\* The last operation was a get_inference whose response holds an error
\* envelope.
GotErrorEnvelope ==
    op = "get_inference" /\ transport.ok /\ HasKey(transport.val, "error")
ErrorMessage == Idx(Idx(transport.val, "error"), "message")
HasContent(resp) ==
    HasKey(resp, "choices") \/ HasKey(resp, "content") \/ HasKey(resp, "candidates")

\* C5: over get_inference, set_system_prompt and clear_history, on each of
\* the three adapters, an entry already in the history is never mutated or
\* removed: the history before a step is a prefix of the history after it.
C5_HistoryAppendOnly == [][IsPrefix(history, history')]_vars

\* C6: a get_inference whose vendor response holds an error envelope leaves
\* the history exactly as it was before the call.
C6_ErrorEnvelopeStep ==
    (op' = "get_inference" /\ transport'.ok /\ HasKey(transport'.val, "error"))
        => history' = history
C6_ErrorLeavesHistoryUnchanged == [][C6_ErrorEnvelopeStep]_vars

\* C7: when the vendor response holds an error envelope with a string
\* message, get_inference returns Error::LLMErrorMessage with exactly that
\* text and no message, and nothing of the response entered the history:
\* the history is the one the payload replayed, even when the response also
\* carries content.
C7_ErrorEnvelopeNotParsed ==
    (GotErrorEnvelope /\ is_string(ErrorMessage)) =>
        /\ result = Err(LibErr("LLMErrorMessage", ErrorMessage.v))
        /\ history = Replayed(payload)
C7_Witness ==
    /\ GotErrorEnvelope
    /\ HasContent(transport.val)
    /\ ErrorMessage = JStr(T_overloaded)
    /\ ~result.ok
    /\ result.err.msg = T_overloaded
    /\ Len(history) >= 2

\* A payload setting that disables parallel tool calls: parallel_tool_calls
\* false (OpenAI), tool_choice.disable_parallel_tool_use true (Anthropic).
DisablesParallelToolCalls(pl) ==
    \/ Idx(pl, "parallel_tool_calls") = JBool(FALSE)
    \/ Idx(Idx(pl, "tool_choice"), "disable_parallel_tool_use") = JBool(TRUE)
    \/ Idx(Idx(pl, "tool_config"), "disable_parallel_tool_use") = JBool(TRUE)
    \/ Idx(Idx(Idx(pl, "tool_config"), "function_calling_config"),
           "disable_parallel_tool_use") = JBool(TRUE)

\* C8: on each of the three adapters the payload get_inference builds for
\* ToolChoice::Auto, CallOne or Force(name) holds a setting that disables
\* parallel tool calls.
C8_ParallelToolCallsDisabled ==
    (op = "get_inference" /\ tool_choice.kind \in {"Auto", "CallOne", "Force"})
        => DisablesParallelToolCalls(payload)

(***************************************************************************)
(* Claims about the agent session: failures, batches and tool calls.       *)
(***************************************************************************)
Printed(ev) == \E i \in 1..Len(ev) : ev[i].e = "apprentice_print"
HasToolResult(batch) == \E i \in 1..Len(batch) : batch[i].type = "ToolResult"
\* The last step was a model call that returned a batch.
GotBatch == AfterInference /\ response.ok

\* C11: every failed model call is visible to the human: after a failed
\* get_inference either a diagnostic was printed in that step and the
\* dialogue goes on, or run returned the error (main prints it and exits
\* with status 1).
C11_FailureVisible ==
    (AfterInference /\ ~response.ok) =>
        \/ Printed(events) /\ ~run_result.returned
        \/ run_result.returned /\ ~run_result.ok

\* C12: when any message of a response batch, of any length, is a
\* ToolResult, run returns an error and no tool was dispatched: nothing was
\* shown for confirmation, nothing read, nothing executed, no ToolResult
\* built, also when a ToolCall stands before the ToolResult.
C12_ToolResultInBatchFails ==
    (GotBatch /\ HasToolResult(response.val)) =>
        /\ pc = "done"
        /\ run_result.returned /\ ~run_result.ok
        /\ run_result.err.variant = "ApplicationError"
        /\ ~Dispatched(events)
        /\ execs = 0
        /\ next_message = NoMessage
        /\ tool_call = NoMessage
C12_Witness ==
    /\ GotBatch
    /\ Len(response.val) = 2
    /\ response.val[1].type = "ToolCall"
    /\ response.val[2].type = "ToolResult"
    /\ pc = "done"
    /\ run_result.err = AppError_ApplicationError(UnexpectedToolResult)

\* The place of the ToolCall in a batch that holds exactly one.
ToolCallIndex(batch) == CHOOSE i \in 1..Len(batch) : batch[i].type = "ToolCall"
\* The step is a model call that returned a batch with exactly one ToolCall
\* and no ToolResult.
OneToolCallStep ==
    /\ pc = "inference"
    /\ calls' = calls + 1
    /\ response'.ok
    /\ NumToolCalls(response'.val) = 1
    /\ ~HasToolResult(response'.val)
IsToolResultOf(msg, tc) ==
    msg.type = "ToolResult" /\ msg.call_id = tc.call_id /\ msg.name = tc.name

\* C13: for a batch of Text fragments and exactly one ToolCall, every Text
\* before the ToolCall is printed, in order, before anything of the tool
\* dispatch happens, and the ToolResult handed to the next model call
\* carries the call_id and the name of that ToolCall, also when the SHELL
\* confirmation loop runs in between.
C13_Step ==
    /\ OneToolCallStep =>
          LET batch == response'.val
              k == ToolCallIndex(batch)
          IN /\ \A i \in 1..(k - 1) :
                    events'[1 + i] = Event("apprentice_print", batch[i].message)
             /\ \A j \in 1..Len(events') :
                    events'[j].e \in {"print_tool_message", "exec_pipe", "tool_input"}
                        => j > k
             /\ pc' = "inference" => IsToolResultOf(next_message', batch[k])
             /\ pc' = "exec_confirm" => tool_call' = batch[k]
    /\ (pc \in {"exec_confirm", "exec_reason"} /\ pc' = "inference") =>
          IsToolResultOf(next_message', tool_call)
    /\ (pc = "exec_confirm" /\ pc' \in {"exec_confirm", "exec_reason"}) =>
          tool_call' = tool_call
C13_TextThenToolCall == [][C13_Step]_vars
C13_Witness ==
    /\ GotBatch
    /\ Len(response.val) = 2
    /\ response.val[1].type = "Text"
    /\ response.val[2].type = "ToolCall"
    /\ events[2] = Event("apprentice_print", response.val[1].message)
    /\ pc = "inference"
    /\ IsToolResultOf(next_message, response.val[2])

UserPrompted(ev) ==
    \E i \in 1..Len(ev) : ev[i].e \in {"user_input", "user_input_err"}

\* C14: once a tool call produced its ToolResult the orchestrator stands
\* before a model call, and its next step is the model call whose only input
\* message is that ToolResult, with no user-input read before it; the step
\* of a batch that holds a ToolCall, and the steps of the confirmation loop,
\* never go to the user-input prompt.
C14_Step ==
    /\ next_message'.type = "ToolResult" => pc' = "inference"
    /\ (pc = "inference" /\ next_message.type = "ToolResult") =>
          /\ calls' = calls + 1
          /\ events'[1] = InferenceEvent(<<next_message>>)
          /\ ~UserPrompted(events')
    /\ (pc = "inference" /\ response'.ok /\ NumToolCalls(response'.val) >= 1) =>
          pc' # "get_user_message"
    /\ pc \in {"exec_confirm", "exec_reason"} =>
          pc' # "get_user_message" /\ ~UserPrompted(events')
C14_ToolResultGoesToModel == [][C14_Step]_vars
C14_Witness ==
    /\ AfterInference
    /\ calls = 2
    /\ Len(events[1].messages) = 1
    /\ events[1].messages[1].type = "ToolResult"
    /\ events[1].messages[1].name = S_SHELL
    /\ events[1].messages[1].call_id = <<"call_1">>

\* C15: after a successful batch of zero or of two or more messages, with
\* no ToolResult and at most one ToolCall, the orchestrator is processing
\* the tool call exactly when the batch holds a ToolCall (its ToolResult is
\* built, or its command waits for confirmation, or running it failed), and
\* otherwise awaits user input, with no error; so for the empty batch.
C15_ScanOutcome ==
    (GotBatch /\ Len(response.val) # 1 /\ ~HasToolResult(response.val)
       /\ NumToolCalls(response.val) <= 1) =>
        IF NumToolCalls(response.val) = 1
        THEN LET tc == response.val[ToolCallIndex(response.val)] IN
             \/ pc = "inference" /\ IsToolResultOf(next_message, tc)
             \/ pc = "exec_confirm" /\ tool_call = tc /\ ~run_result.returned
             \/ /\ pc = "done"
                /\ run_result.returned /\ ~run_result.ok
                /\ run_result.err.variant = "Error"
                /\ execs = 1
        ELSE /\ pc = "get_user_message"
             /\ ~run_result.returned
             /\ ~Dispatched(events)
             /\ next_message = NoMessage
             /\ tool_call = NoMessage
C15_Witness ==
    /\ GotBatch
    /\ response.val = <<>>
    /\ pc = "get_user_message"
    /\ ~run_result.returned

\* A parameter list that is not exactly one parameter "command" with a
\* string value, and the diagnostic the tools answer it with.
BadParams(params) ==
    ~(Len(params) = 1 /\ params[1].name = S_command /\ params[1].value.t = "str")
ParamsDiagnostic(params) ==
    IF Len(params) # 1 THEN WrongNumber
    ELSE IF params[1].name # S_command THEN WrongName ELSE WrongType
\* The last step was a model call that returned a batch with one ToolCall
\* and no ToolResult.
GotOneToolCall ==
    GotBatch /\ NumToolCalls(response.val) = 1 /\ ~HasToolResult(response.val)
TheToolCall == response.val[ToolCallIndex(response.val)]

\* C16: for SHELL and for HELP, a parameter list with a wrong count, a wrong
\* name or a wrong value type gives Ok with the diagnostic string, never an
\* error: run has not returned, nothing was shown for confirmation, read or
\* executed, and the diagnostic is the ToolResult handed to the next model
\* call.
C16_BadParamsDiagnostic ==
    (GotOneToolCall /\ TheToolCall.name \in {S_SHELL, S_HELP}
       /\ BadParams(TheToolCall.params)) =>
        /\ pc = "inference"
        /\ ~run_result.returned
        /\ next_message =
              Message_tool_result(TheToolCall.call_id, TheToolCall.name,
                                  ParamsDiagnostic(TheToolCall.params))
        /\ ~Dispatched(events)
        /\ execs = 0
C16_Witness ==
    /\ GotOneToolCall
    /\ TheToolCall.name = S_SHELL
    /\ TheToolCall.params = <<InputParam(S_command, JNum(5))>>
    /\ pc = "inference"
    /\ next_message.result = WrongType

\* C17: a ToolCall whose name is neither SHELL nor HELP does not fail the
\* session: the ToolResult of the next model call holds the "unknown tool"
\* text with the requested name, under the call_id and the name of the
\* request, and nothing was shown, read or executed.
C17_UnknownToolAnswered ==
    (GotOneToolCall /\ TheToolCall.name \notin {S_SHELL, S_HELP}) =>
        /\ pc = "inference"
        /\ ~run_result.returned
        /\ next_message =
              Message_tool_result(
                  TheToolCall.call_id, TheToolCall.name,
                  <<"Unknown tool \"">> \o TheToolCall.name \o <<"\" was requested.">>)
        /\ ~Dispatched(events)
        /\ execs = 0
C17_Witness ==
    /\ GotOneToolCall
    /\ TheToolCall.name = <<"OTHER">>
    /\ pc = "inference"
    /\ IsToolResultOf(next_message, TheToolCall)
    /\ contains(next_message.result, <<"OTHER">>)

\* The program names HELP allows under a goal, and whether a command begins
\* with one of them.
AllowedPrograms(g) ==
    CASE g = "Gcp" -> {P_gcloud, P_bq, P_gsutil}
      [] g = "Aws" -> {P_aws}
      [] g = "Azure" -> {P_az}
BeginsAllowed(cmd, g) == \E p \in AllowedPrograms(g) : starts_with(cmd, p)
\* The guidance HELP answers with under a goal.
HelpGuidance(g) ==
    CASE g = "Gcp" ->
            <<"command must start with \"gcloud \",  \"bq  \", or  \"gsutil  \".">>
      [] g = "Aws" -> <<"command must start with \"aws \".">>
      [] g = "Azure" -> <<"command must start with \"az \".">>
\* The last step was a model call that returned one HELP call with one
\* string parameter "command".
GotHelpCall ==
    GotOneToolCall /\ TheToolCall.name = S_HELP /\ ~BadParams(TheToolCall.params)
HelpCommand == TheToolCall.params[1].value.v

\* C18: in HELP, under each goal, a command that does not begin with one of
\* the goal's program names gives Ok with a guidance string as the
\* ToolResult and exec_pipe is not invoked; exec_pipe runs, once and on that
\* command with the help flag appended, only when the command begins with an
\* allowed program name.
C18_HelpPrefixGuard ==
    GotHelpCall =>
        /\ ~BeginsAllowed(HelpCommand, goal) =>
              /\ pc = "inference"
              /\ ~run_result.returned
              /\ IsToolResultOf(next_message, TheToolCall)
              /\ next_message.result = HelpGuidance(goal)
              /\ ~Dispatched(events)
              /\ execs = 0
        /\ BeginsAllowed(HelpCommand, goal) =>
              /\ execs = 1
              /\ \E i \in 1..Len(events) :
                    /\ events[i].e = "exec_pipe"
                    /\ starts_with(events[i].text, HelpCommand)
C18_Witness ==
    /\ GotHelpCall
    /\ goal = "Aws"
    /\ HelpCommand = P_gcloud \o <<"x">>
    /\ pc = "inference"
    /\ next_message.result = <<"command must start with \"aws \".">>
    /\ execs = 0

CleanEnds == {"Interrupted", "Eof"}
\* The read the step began with failed.
ReadFailed(ev) == ev # <<>> /\ ev[1].e \in {"user_input_err", "tool_input_err"}

\* C19: while the orchestrator awaits user input, a read that fails with
\* end of input or interrupt ends the session cleanly (run returns Ok) and a
\* read that fails otherwise ends it with that error; no model call is made
\* in either step, and once run has returned nothing changes any more.
C19_Step ==
    /\ (pc = "get_user_message" /\ ReadFailed(events')) =>
          /\ pc' = "done"
          /\ calls' = calls
          /\ execs' = execs
          /\ events'[1].kind \in CleanEnds => run_result' = Returned_Ok
          /\ events'[1].kind \notin CleanEnds =>
                run_result' = Returned_Err(AppError_Rustyline(events'[1].kind))
    /\ pc = "done" =>
          /\ run_result.returned
          /\ pc' = "done" /\ run_result' = run_result /\ calls' = calls
C19_UserInputEnds == [][C19_Step]_vars
C19_Witness ==
    /\ pc = "done"
    /\ run_result = Returned_Ok
    /\ events # <<>>
    /\ events[1].e = "user_input_err"
    /\ events[1].kind = "Eof"
    /\ calls = 1

\* C20: an interrupt or end of stream on any interactive read of the
\* session, the user-input read, the SHELL confirmation read or its reason
\* read, ends the session cleanly: run returns Ok.
C20_InterruptIsCleanEnd ==
    (ReadFailed(events) /\ events[1].kind \in CleanEnds) =>
        pc = "done" /\ run_result = Returned_Ok

(***************************************************************************)
(* Claims about the agent session: start-up and user turns.                *)
(***************************************************************************)
LineRead(ev) == ev # <<>> /\ ev[1].e = "user_input"
AnyRead(ev) ==
    \E i \in 1..Len(ev) :
        ev[i].e \in {"user_input", "user_input_err", "tool_input", "tool_input_err"}
FirstModelCall == calls = 0 /\ calls' = 1

\* C21: with an initial message configured, run goes to the first model
\* call without reading the terminal and that call gets the message as one
\* User Text; with none configured run first reads the terminal, and the
\* first model call gets the User Text made of the line read just before.
C21_Step ==
    /\ (pc = "run" /\ message # NoString) =>
          /\ pc' = "inference"
          /\ next_message' = Message_text("User", message)
          /\ ~AnyRead(events')
    /\ (pc = "run" /\ message = NoString) =>
          /\ pc' = "get_user_message"
          /\ calls' = calls
    /\ (FirstModelCall /\ message # NoString) =>
          /\ ~AnyRead(events)
          /\ events'[1] = InferenceEvent(<<Message_text("User", message)>>)
    /\ (FirstModelCall /\ message = NoString) =>
          /\ LineRead(events)
          /\ events'[1] = InferenceEvent(<<Message_text("User", trim(events[1].text))>>)
C21_FirstModelCall == [][C21_Step]_vars
C21_Witness ==
    /\ calls = 1
    /\ message # NoString
    /\ AfterInference
    /\ events[1].messages = <<Message_text("User", message)>>
C21_WitnessPrompted ==
    /\ calls = 1
    /\ message = NoString
    /\ AfterInference
    /\ events[1].messages = <<Message_text("User", <<"h", "i">>)>>

\* C22: in get_user_message a line that trims to "?" prints the help text
\* and asks again, a blank line asks again, and in both cases no model call
\* is made, no message is built and the chat history stays as it is; a line
\* becomes the user turn only when it is neither blank nor "?".
C22_Step ==
    (pc = "get_user_message" /\ LineRead(events')) =>
        LET t == trim(events'[1].text) IN
        /\ t = S_question =>
              /\ events' = <<events'[1], Event("print_help", <<>>)>>
              /\ pc' = "get_user_message"
        /\ t = <<>> =>
              /\ events' = <<events'[1]>>
              /\ pc' = "get_user_message"
        /\ pc' = "get_user_message" =>
              /\ next_message' = NoMessage
              /\ calls' = calls
              /\ history' = history
              /\ requests' = requests
        /\ t \notin {<<>>, S_question} =>
              /\ pc' = "inference"
              /\ next_message' = Message_text("User", t)
        /\ pc' \in {"get_user_message", "inference"}
C22_HelpAndBlankReprompt == [][C22_Step]_vars
C22_Witness ==
    /\ pc = "get_user_message"
    /\ LineRead(events)
    /\ trim(events[1].text) = S_question
    /\ events[1].text # S_question
    /\ Len(events) = 2

(***************************************************************************)
(* Vendor responses made of text and tool-invocation fragments in every    *)
(* order, and the chat session that receives them.  Each fragment carries  *)
(* its position, so that two fragments of a response are never equal.      *)
(***************************************************************************)
MaxFragments == 2          \* content fragments of one vendor response
MaxFragmentRequests == 2   \* get_inference calls of one fragment session

Ordinal == <<"1", "2", "3", "4">>
FragmentKinds == {"text", "tool"}
KindSeqs == UNION {SeqsOfLen(FragmentKinds, n) : n \in 0..MaxFragments}
FragmentText(i) == <<"t", Ordinal[i]>>
FragmentId(i) == <<"call_", Ordinal[i]>>

\* Anthropic: one message whose content array holds the fragments.
Anthropic_fragments(kinds) ==
    Anthropic_message(
        [i \in 1..Len(kinds) |->
            IF kinds[i] = "text"
            THEN JObj([type |-> JStr(<<"text">>), text |-> JStr(FragmentText(i))])
            ELSE JObj([type |-> JStr(<<"tool_use">>), id |-> JStr(FragmentId(i)),
                       name |-> JStr(S_SHELL),
                       input |-> JObj([command |-> JStr(<<"l", "s">>)])])])

\* GCP: the parts, in one candidate or in one candidate each.  A functionCall
\* has no id, its position is in its argument.
Gcp_fragment(kinds, i) ==
    IF kinds[i] = "text"
    THEN JObj([text |-> JStr(FragmentText(i))])
    ELSE JObj([functionCall |->
                 JObj([name |-> JStr(S_SHELL),
                       args |-> JObj([command |-> JStr(FragmentId(i))])])])
Gcp_fragments(kinds) ==
    {JObj([candidates |->
             JArr(<<Gcp_candidate(<<"model">>,
                                  [i \in 1..Len(kinds) |-> Gcp_fragment(kinds, i)])>>)]),
     JObj([candidates |->
             JArr([i \in 1..Len(kinds) |->
                      Gcp_candidate(<<"model">>, <<Gcp_fragment(kinds, i)>>)])])}

\* OpenAI: a message holds an optional content and then its tool calls.
OpenAI_tool_call_fragment(i) ==
    JObj([id |-> JStr(FragmentId(i)), type |-> JStr(<<"function">>),
          function |-> JObj([name |-> JStr(S_SHELL), arguments |-> JStr(Args_ls)])])
\* The last position of the run of tool fragments that starts at i.
RECURSIVE ToolsEnd(_, _)
ToolsEnd(kinds, i) ==
    IF i <= Len(kinds) /\ kinds[i] = "tool" THEN ToolsEnd(kinds, i + 1) ELSE i - 1
OpenAI_fragment_message(kinds, i, first, last) ==
    LET msg == JObj([role |-> JStr(<<"assistant">>),
                     content |-> IF kinds[i] = "text"
                                 THEN JStr(FragmentText(i)) ELSE JNull])
    IN IF last < first
       THEN msg
       ELSE Put(msg, "tool_calls",
                JArr([j \in 1..(last - first + 1) |->
                         OpenAI_tool_call_fragment(first + j - 1)]))
\* One choice per fragment.
OpenAI_spread(kinds) ==
    [i \in 1..Len(kinds) |->
        OpenAI_choice(OpenAI_fragment_message(
            kinds, i, i, IF kinds[i] = "tool" THEN i ELSE i - 1))]
\* As few choices as hold the fragments in their order, from fragment i on.
RECURSIVE OpenAI_packed(_, _)
OpenAI_packed(kinds, i) ==
    IF i > Len(kinds)
    THEN <<>>
    ELSE LET first == IF kinds[i] = "text" THEN i + 1 ELSE i
             last == ToolsEnd(kinds, first)
         IN <<OpenAI_choice(OpenAI_fragment_message(kinds, i, first, last))>>
            \o OpenAI_packed(kinds, last + 1)
OpenAI_fragments(kinds) ==
    {JObj([choices |-> JArr(OpenAI_spread(kinds))]),
     JObj([choices |-> JArr(OpenAI_packed(kinds, 1))])}

FragmentResponses(prov) ==
    CASE prov = "OpenAI" -> UNION {OpenAI_fragments(kinds) : kinds \in KindSeqs}
      [] prov = "Anthropic" -> {Anthropic_fragments(kinds) : kinds \in KindSeqs}
      [] prov = "GCP" -> UNION {Gcp_fragments(kinds) : kinds \in KindSeqs}
FragmentTransports == [prov \in Providers |-> {Ok(r) : r \in FragmentResponses(prov)}]
FragmentInputs == {<<Message_text("User", T_hi)>>}

FragmentsGetInference ==
    ChatGetInference(FragmentInputs, {ToolChoice_Auto}, FragmentTransports,
                     MaxFragmentRequests)

FragmentsInit == ChatNew(ChatConfigs)
FragmentsNext == FragmentsGetInference
SpecFragments == FragmentsInit /\ [][FragmentsNext]_vars

(***************************************************************************)
(* Claims about the order of the normalized messages and of the history.   *)
(***************************************************************************)
RECURSIVE Flatten(_)
Flatten(qq) == IF qq = <<>> THEN <<>> ELSE Head(qq) \o Flatten(Tail(qq))

\* The content fragments of an OpenAI message: its content, then its calls.
OpenAIMessageFragments(msg) ==
    (IF is_null(Idx(msg, "content")) THEN <<>> ELSE <<Idx(msg, "content")>>)
    \o (IF is_null(Idx(msg, "tool_calls")) THEN <<>> ELSE Idx(msg, "tool_calls").v)
\* The content fragments a sequence of history entries holds, in order.
EntryFragments(prov, entries) ==
    CASE prov = "OpenAI" ->
            Flatten([i \in DOMAIN entries |-> OpenAIMessageFragments(entries[i])])
      [] prov = "Anthropic" ->
            Flatten([i \in DOMAIN entries |-> Idx(entries[i], "content").v])
      [] prov = "GCP" ->
            Flatten([i \in DOMAIN entries |-> Idx(entries[i], "parts").v])
\* The content fragments of a vendor response, in the order of the response.
VendorFragments(prov, resp) ==
    CASE prov = "OpenAI" ->
            EntryFragments(prov, [i \in DOMAIN Idx(resp, "choices").v |->
                                     Idx(Idx(resp, "choices").v[i], "message")])
      [] prov = "Anthropic" -> Idx(resp, "content").v
      [] prov = "GCP" ->
            EntryFragments(prov, [i \in DOMAIN Idx(resp, "candidates").v |->
                                     Idx(Idx(resp, "candidates").v[i], "content")])
\* msg is the normalized form of the fragment frag.
Mirrors(prov, frag, msg) ==
    CASE prov = "OpenAI" ->
            IF is_string(frag)
            THEN msg = Message_text("Model", frag.v)
            ELSE msg.type = "ToolCall" /\ msg.call_id = Idx(frag, "id").v
      [] prov = "Anthropic" ->
            IF Idx(frag, "type") = JStr(<<"text">>)
            THEN msg = Message_text("Model", Idx(frag, "text").v)
            ELSE msg.type = "ToolCall" /\ msg.call_id = Idx(frag, "id").v
      [] prov = "GCP" ->
            IF HasKey(frag, "text")
            THEN msg = Message_text("Model", Idx(frag, "text").v)
            ELSE /\ msg.type = "ToolCall"
                 /\ msg.params =
                       <<InputParam(S_command,
                                    Idx(Idx(Idx(frag, "functionCall"), "args"), "command"))>>
GotFragments == op = "get_inference" /\ result.ok /\ transport.ok
Distinct(q) == \A i, j \in DOMAIN q : q[i] = q[j] => i = j

\* C23: on each adapter, the messages a successful get_inference returns
\* are the normalized forms of the content fragments of the vendor response,
\* one message per fragment, in the order of the response.
C23_VendorOrder ==
    GotFragments =>
        LET frags == VendorFragments(config.provider, transport.val) IN
        /\ Len(result.val) = Len(frags)
        /\ \A i \in DOMAIN frags : Mirrors(config.provider, frags[i], result.val[i])
C23_Witness ==
    /\ GotFragments
    /\ config.provider = "GCP"
    /\ Len(result.val) = 2
    /\ result.val[1].type = "ToolCall"
    /\ result.val[2].type = "Text"
    /\ Len(Idx(transport.val, "candidates").v) = 1

\* C24: after a successful get_inference, on each adapter, the history is
\* the message list of the request, which ends with the input messages of
\* the call, followed by entries that hold every content fragment of the
\* vendor response unchanged and in the order of the response.
C24_FragmentsKept ==
    GotFragments =>
        LET sent == Replayed(payload) IN
        /\ IsPrefix(sent, history)
        /\ EntryFragments(config.provider,
                          SubSeq(history, Len(sent) + 1, Len(history)))
              = VendorFragments(config.provider, transport.val)
C24_Witness ==
    /\ GotFragments
    /\ requests = 2
    /\ config.provider = "Anthropic"
    /\ Len(VendorFragments(config.provider, transport.val)) = 2
    /\ Distinct(VendorFragments(config.provider, transport.val))
    /\ Idx(VendorFragments(config.provider, transport.val)[1], "type")
          = JStr(<<"tool_use">>)
    /\ Len(history) > Len(Replayed(payload)) + 1

(***************************************************************************)
(* Claims about the request payload.                                       *)
(***************************************************************************)
\* The system prompt a payload carries at the place of the vendor's
\* convention, or NoString when that place holds none.
PayloadSystemPrompt(prov, pl) ==
    CASE prov = "Anthropic" ->
            IF is_string(Idx(pl, "system")) THEN Idx(pl, "system").v ELSE NoString
      [] prov = "GCP" ->
            LET text == Idx(Idx(Idx(pl, "systemInstruction"), "parts"), "text") IN
            IF is_string(text) THEN text.v ELSE NoString
      [] prov = "OpenAI" ->
            LET msgs == Idx(pl, "messages").v IN
            IF msgs # <<>> /\ Idx(msgs[1], "role") = JStr(<<"system">>)
               /\ is_string(Idx(msgs[1], "content"))
            THEN Idx(msgs[1], "content").v
            ELSE NoString
PromptWasSet == system_prompt \in SystemPrompts

\* C25: over set_system_prompt, clear_history and get_inference in any
\* order, once a system prompt was set every request payload carries the
\* prompt set last: in the "system" field for Anthropic, in
\* "systemInstruction" for GCP, as the first entry of "messages" for OpenAI.
C25_PayloadHasSystemPrompt ==
    (op = "get_inference" /\ PromptWasSet) =>
        PayloadSystemPrompt(config.provider, payload) = system_prompt
\* The same for the two adapters with a dedicated field.
C25_DedicatedField ==
    (op = "get_inference" /\ PromptWasSet /\ config.provider # "OpenAI") =>
        PayloadSystemPrompt(config.provider, payload) = system_prompt

\* The text a history entry carries for an input message of the vendor prov.
EntryOf(prov, entry, msg) ==
    LET text == IF msg.type = "Text" THEN JStr(msg.message) ELSE JStr(msg.result) IN
    CASE prov = "OpenAI" -> Idx(entry, "content") = text
      [] prov = "Anthropic" ->
            IF msg.type = "Text"
            THEN Idx(entry, "content") = text
            ELSE /\ is_array(Idx(entry, "content"))
                 /\ Idx(Idx(entry, "content").v[1], "content") = text
      [] prov = "GCP" ->
            /\ is_array(Idx(entry, "parts"))
            /\ IF msg.type = "Text"
               THEN Idx(Idx(entry, "parts").v[1], "text") = text
               ELSE Idx(Idx(Idx(Idx(entry, "parts").v[1], "functionResponse"),
                            "response"), "content") = text
\* The messages of a list that get_inference takes as input.
Accepted(messages) == SelectSeq(messages, LAMBDA m : m.type \in {"Text", "ToolResult"})
\* entries are the history entries of the messages, one each, in order.
EntriesOf(prov, entries, messages) ==
    /\ Len(entries) = Len(messages)
    /\ \A i \in DOMAIN messages : EntryOf(prov, entries[i], messages[i])
GetInferenceStep == op' = "get_inference" /\ requests' = requests + 1

\* C26: the message list of the payload a get_inference call builds is the
\* whole history the adapter held when it was called, entry for entry and
\* in the same order, followed by the entries of the new input messages;
\* and that list is the history the response entries are appended to.
C26_Step ==
    GetInferenceStep =>
        LET sent == Replayed(payload') IN
        /\ IsPrefix(history, sent)
        /\ IsPrefix(sent, history')
        /\ \E messages \in ChatInputs :
              EntriesOf(config.provider, SubSeq(sent, Len(history) + 1, Len(sent)),
                        Accepted(messages))
C26_PayloadReplaysHistory == [][C26_Step]_vars
C26_Witness ==
    /\ op = "get_inference"
    /\ requests = MaxRequests
    /\ Len(Replayed(payload)) >= 4
    /\ Replayed(payload)[Len(Replayed(payload))] # Replayed(payload)[1]

(***************************************************************************)
(* Claims about the agent session: repeated model calls.                   *)
(***************************************************************************)
ModelCalls(ev) == Cardinality({i \in 1..Len(ev) : ev[i].e = "get_inference"})

\* C27: a step of the session makes at most one model call, with the one
\* pending message; after a call that failed the session reads the user or
\* ends, so the call is not made again by itself: the next model call comes
\* only from a line the user entered after the failure.
C27_Step ==
    /\ calls' \in {calls, calls + 1}
    /\ calls' = calls + 1 =>
          /\ pc = "inference"
          /\ ModelCalls(events') = 1
          /\ events'[1] = InferenceEvent(<<next_message>>)
    /\ (calls' = calls + 1 /\ ~response'.ok) =>
          /\ pc' \in {"get_user_message", "done"}
          /\ next_message' = NoMessage
    /\ pc = "get_user_message" =>
          /\ calls' = calls
          /\ ModelCalls(events') = 0
          /\ pc' = "inference" =>
                /\ LineRead(events')
                /\ next_message' = Message_text("User", trim(events'[1].text))
SamplingParams ==
    {"temperature", "top_p", "top_k", "frequency_penalty", "presence_penalty",
     "stop_sequence", "max_tokens"}
\* The names under which the vendors take a sampling parameter.
ParamKeys(param) ==
    CASE param = "temperature" -> {"temperature"}
      [] param = "top_p" -> {"top_p", "topP"}
      [] param = "top_k" -> {"top_k", "topK"}
      [] param = "frequency_penalty" -> {"frequency_penalty", "frequencyPenalty"}
      [] param = "presence_penalty" -> {"presence_penalty", "presencePenalty"}
      [] param = "stop_sequence" -> {"stop", "stop_sequences", "stopSequences"}
      [] param = "max_tokens" ->
            {"max_tokens", "max_completion_tokens", "maxOutputTokens"}
\* The object of a payload that holds the sampling parameters.
SamplingObject(prov, pl) == IF prov = "GCP" THEN Idx(pl, "generationConfig") ELSE pl
PayloadHasParam(prov, pl, param) ==
    \E key \in ParamKeys(param) : HasKey(SamplingObject(prov, pl), key)

\* C28: on each adapter the payload of a request holds the field of a
\* sampling parameter exactly when the configuration sets that parameter.
C28_ParamsIffConfigured ==
    op = "get_inference" =>
        \A param \in SamplingParams :
            config[param].some <=> PayloadHasParam(config.provider, payload, param)
\* The half of it that is about absent parameters: none of them is sent.
C28_AbsentNeverSent ==
    op = "get_inference" =>
        \A param \in SamplingParams :
            PayloadHasParam(config.provider, payload, param) => config[param].some

(***************************************************************************)
(* The chat session that is given every kind of message as input.  The     *)
(* call is recorded with the messages it was given, as in the agent        *)
(* session.                                                                *)
(***************************************************************************)
MaxInputs == 2           \* messages of one get_inference input
MaxInputRequests == 1    \* get_inference calls of one input session

InputMessages ==
    {Message_text("User", T_hi),
     Message_tool_result(<<"call_1">>, S_SHELL, <<"out">>),
     Message_tool_use(<<"call_1">>, S_SHELL, <<>>)}
InputLists == UNION {SeqsOfLen(InputMessages, n) : n \in 1..MaxInputs}
InputTransports ==
    [prov \in Providers |->
        {tr \in Transports(prov) :
            ~tr.ok \/ tr.val \in {JObj([choices |-> JArr(<<OpenAI_choice(OpenAI_msg_text)>>)]),
                                  JObj([choices |-> JArr(<<OpenAI_choice(OpenAI_msg_tool)>>)]),
                                  Anthropic_message(<<Anthropic_text>>),
                                  Anthropic_message(<<Anthropic_text, Anthropic_tool_use>>),
                                  JObj([candidates |->
                                          JArr(<<Gcp_candidate(<<"model">>,
                                                               <<Gcp_text>>)>>)]),
                                  JObj([candidates |->
                                          JArr(<<Gcp_candidate(
                                                     <<"model">>,
                                                     <<Gcp_functionCall(S_SHELL),
                                                       Gcp_functionCall(S_HELP)>>)>>)])}}]

InputsGetInference ==
    /\ Constructed
    /\ requests < MaxInputRequests
    /\ \E messages \in InputLists, tr \in InputTransports[config.provider] :
          LET r == LLMChat_get_inference(config, system_prompt, history, AgentTools,
                                         messages, ToolChoice_Auto, tr)
          IN /\ history' = r.history
             /\ payload' = r.payload
             /\ result' = r.result
             /\ transport' = tr
             /\ events' = <<InferenceEvent(messages)>>
    /\ tool_choice' = ToolChoice_Auto
    /\ op' = "get_inference"
    /\ requests' = requests + 1
    /\ UNCHANGED <<exec_vars, config, system_prompt, goal, message, pc, next_message, tool_call,
                   command, response, calls, execs, run_result>>

InputsInit == ChatNew(ChatConfigs)
InputsNext == InputsGetInference
SpecInputs == InputsInit /\ [][InputsNext]_vars

\* entry is a history entry that holds a tool invocation.
IsToolCallEntry(prov, entry) ==
    CASE prov = "OpenAI" -> ~is_null(Idx(entry, "tool_calls"))
      [] prov = "Anthropic" ->
            /\ is_array(Idx(entry, "content"))
            /\ \E j \in DOMAIN Idx(entry, "content").v :
                  Idx(Idx(entry, "content").v[j], "type") = JStr(<<"tool_use">>)
      [] prov = "GCP" ->
            /\ is_array(Idx(entry, "parts"))
            /\ \E j \in DOMAIN Idx(entry, "parts").v :
                  HasKey(Idx(entry, "parts").v[j], "functionCall")
\* The number of history entries a vendor response can add.
ResponseEntries(prov, tr) ==
    IF ~tr.ok THEN 0
    ELSE CASE prov = "OpenAI" -> Len(Idx(tr.val, "choices").v)
           [] prov = "Anthropic" -> Len(Idx(tr.val, "content").v)
           [] prov = "GCP" -> Len(Idx(tr.val, "candidates").v)

\* C29: of the messages given to get_inference only the Text and the
\* ToolResult ones are taken: the request's message list is the history
\* followed by one entry for each of them, a ToolCall of the input adds no
\* entry to the payload or to the history, and whatever else the history
\* gains in the call are the entries of the vendor response.
C29_Step ==
    GetInferenceStep =>
        LET messages == events'[1].messages
            sent == Replayed(payload')
            added == SubSeq(sent, Len(history) + 1, Len(sent))
        IN /\ IsPrefix(history, sent)
           /\ EntriesOf(config.provider, added, Accepted(messages))
           /\ \A i \in DOMAIN added : ~IsToolCallEntry(config.provider, added[i])
           /\ IsPrefix(sent, history')
           /\ Len(history') <= Len(sent) + ResponseEntries(config.provider, transport')
C29_ToolCallInputIgnored == [][C29_Step]_vars
C29_Witness ==
    /\ op = "get_inference"
    /\ events # <<>>
    /\ Len(events[1].messages) = 2
    /\ events[1].messages[1].type = "ToolCall"
    /\ events[1].messages[2].type = "Text"
    /\ Len(Replayed(payload)) = 1
    /\ config.provider = "OpenAI"
    /\ result.ok

(***************************************************************************)
(* Claims about the construction of the chat.                              *)
(***************************************************************************)
LacksMandatory(cfg) ==
    cfg.provider = "Anthropic" /\ (~cfg.api_version.some \/ ~cfg.max_tokens.some)

\* C30: get_llm_chat for Anthropic with the api version or the max-token
\* limit absent returns a MissingArgError and no chat, so that no request
\* is ever built or sent for such a configuration; with both present it
\* returns a chat.
C30_MandatoryAnthropicFields ==
    /\ LacksMandatory(config) =>
          /\ op = "new"
          /\ ~result.ok
          /\ result.err.kind = "MissingArgError"
          /\ requests = 0
          /\ payload = JNull
          /\ history = <<>>
    /\ (config.provider = "Anthropic" /\ ~LacksMandatory(config) /\ op = "new") =>
          result.ok
C30_Witness ==
    /\ config.provider = "Anthropic"
    /\ config.api_version.some
    /\ ~config.max_tokens.some
    /\ op = "new"
    /\ ~result.ok

(***************************************************************************)
(* The schema builder applied to every short list of parameter             *)
(* declarations.  The call is recorded with the list it was given.         *)
(***************************************************************************)
MaxParams == 2    \* parameter declarations of one ToolSpec

ParamTypes == {"String", "Integer", "Number", "Boolean"}
ParamSpecs ==
    {ToolParamSpec(name, <<"about ", name>>, data_type, required) :
        name \in {"a", "b"}, data_type \in ParamTypes, required \in BOOLEAN}
ParamSpecLists == UNION {SeqsOfLen(ParamSpecs, n) : n \in 0..MaxParams}

ToolParamsToValue ==
    /\ op = "new"
    /\ \E params \in ParamSpecLists :
          /\ result' = Ok(tool_params_to_value(params, config.provider))
          /\ events' = <<[e |-> "tool_params_to_value", params |-> params]>>
    /\ op' = "tool_params_to_value"
    /\ UNCHANGED <<exec_vars, config, tool_choice, system_prompt, history, payload, transport,
                   requests, goal, message, pc, next_message, tool_call, command,
                   response, calls, execs, run_result>>

SchemaInit == ChatNew({Config_set(prov) : prov \in Providers})
SchemaNext == ToolParamsToValue
SpecSchema == SchemaInit /\ [][SchemaNext]_vars

(***************************************************************************)
(* Claims about the schema builder.                                        *)
(***************************************************************************)
BuiltSchema == op = "tool_params_to_value"
RequiredNames(params) ==
    LET req == SelectSeq(params, LAMBDA p : p.required) IN
    [i \in DOMAIN req |-> JStr(<<req[i].name>>)]
DistinctNames(params) ==
    \A i, j \in DOMAIN params : params[i].name = params[j].name => i = j
\* The schema has the properties entry of the i-th declaration.
HasPropertyOf(schema, params, i) ==
    /\ HasKey(Idx(schema, "properties"), params[i].name)
    /\ Idx(Idx(Idx(schema, "properties"), params[i].name), "type")
          = JStr(ParamType_serialize(params[i].data_type))
\* The number of entries of the properties object.
NumProperties(schema) == Cardinality(DOMAIN Idx(schema, "properties").v)

\* C31: for every list of parameter declarations the schema's "required"
\* array holds the names of the required ones, in declaration order, and
\* its "properties" object has one entry for each declaration, with the type
\* string of that declaration's ParamType.
C31_SchemaMatchesParams ==
    BuiltSchema =>
        LET params == events[1].params
            schema == result.val
        IN /\ Idx(schema, "required") = JArr(RequiredNames(params))
           /\ NumProperties(schema) = Len(params)
           /\ \A i \in DOMAIN params : HasPropertyOf(schema, params, i)
\* The same for the lists that declare no name twice, and the required
\* array for every list.
C31_DistinctNamesSchema ==
    BuiltSchema =>
        LET params == events[1].params
            schema == result.val
        IN /\ Idx(schema, "required") = JArr(RequiredNames(params))
           /\ DistinctNames(params) =>
                 /\ NumProperties(schema) = Len(params)
                 /\ \A i \in DOMAIN params : HasPropertyOf(schema, params, i)

(***************************************************************************)
(* SpecExec: one exec_pipe call (apprentice/src/util.rs) with its child    *)
(* process, the two pipes and the two threads of stream_and_capture_stdio. *)
(***************************************************************************)
MaxWrites == 3    \* write calls of the child, one byte each
MaxFaults == 1    \* I/O faults of one exec_pipe call

\* The capacity of a pipe, kept below what the child may write to it.
PipeCap == MaxWrites - 1

Streams == 1..2                    \* 1 is stdout, 2 is stderr
ExecCommand == <<"l", "s">>       \* the command exec_pipe was called with
ByteNames == <<"a", "b", "c", "d", "e">>

\* What the child does before it exits: its writes, in program order.
ChildPrograms ==
    UNION {{[k \in 1..n |-> [stream |-> q[k], byte |-> ByteNames[k]]] :
                q \in SeqsOfLen(Streams, n)} : n \in 0..MaxWrites}

IoOk(len) == [ok |-> TRUE, len |-> len, kind |-> "None"]
IoErr(kind) == [ok |-> FALSE, len |-> 0, kind |-> kind]

\* What Stdout::write or Stderr::write may answer to a write of buf.
WriteOutcomes(buf) ==
    {IoOk(len) : len \in 1..Len(buf)}
    \cup (IF faults < MaxFaults
          THEN {IoOk(0), IoErr("Interrupted"), IoErr("Other")} ELSE {})

\* Mutant of StreamBufferWriter_write: the whole buf is kept whatever the
\* terminal stream took.
StreamBufferWriter_write_all_kept(sbw, buf, wr) ==
    IF wr.ok
    THEN [stdstream |-> sbw.stdstream \o SubSeq(buf, 1, wr.len),
          buf |-> sbw.buf \o buf, ret |-> wr]
    ELSE [stdstream |-> sbw.stdstream, buf |-> sbw.buf, ret |-> wr]

\* StreamBufferWriter::write, where wr is what self.stdstream.write(buf) gave:
\* the terminal stream took the first wr.len bytes, and those are appended.
StreamBufferWriter_write(sbw, buf, wr) ==
    IF wr.ok
    THEN [stdstream |-> sbw.stdstream \o SubSeq(buf, 1, wr.len),
          buf |-> sbw.buf \o SubSeq(buf, 1, wr.len), ret |-> wr]
    ELSE [stdstream |-> sbw.stdstream, buf |-> sbw.buf, ret |-> wr]

\* A thread of stream_and_capture_stdio: chunk is what io::copy read and has
\* not written yet, buf is StreamBufferWriter.buf, last is the latest answer
\* of the terminal stream.
Lane(lane_pc, chunk, buf, ok, last) ==
    [pc |-> lane_pc, chunk |-> chunk, buf |-> buf, ok |-> ok, last |-> last]

\* Mutant of Runnable: the stderr thread starts draining once the stdout
\* thread has finished.
Runnable_in_turn(i) ==
    /\ thread # <<>>
    /\ thread[i].pc # "finished"
    /\ i = 2 => thread[1].pc = "finished"

\* Both threads are spawned before either is joined, so each runs until its
\* closure returns.
Runnable(i) ==
    /\ thread # <<>>
    /\ thread[i].pc # "finished"

\* Mutant of Joined: join does not wait for the thread.
Joined_at_once(i) == thread # <<>>

\* JoinHandle::join returns once the thread's closure returned.
Joined(i) == thread # <<>> /\ thread[i].pc = "finished"

\* Mutant of Waited: wait does not block on a running child.
Waited_at_once == child.state # "none"

\* Child::wait returns once the child has exited.
Waited == child.state = "exited"

UnchangedOutside == UNCHANGED <<agent_vars, chat_vars>>

\* Command::spawn of exec_pipe, then the two thread::spawn of
\* stream_and_capture_stdio.
ExecSpawn ==
    /\ exec_pc = "spawn"
    /\ \/ /\ exec_pc' = "join1"
          /\ child' = [child EXCEPT !.state = "running"]
          /\ pipe' = [i \in Streams |-> [data |-> <<>>, open |-> TRUE, reader |-> TRUE]]
          /\ thread' = [i \in Streams |-> Lane("read", <<>>, <<>>, TRUE, "none")]
          /\ stdstream' = [i \in Streams |-> <<>>]
          /\ UNCHANGED <<output, faults>>
       \/ /\ faults < MaxFaults
          /\ exec_pc' = "done"
          /\ output' = exec_pipe(ExecCommand, [ok |-> FALSE, stdout |-> <<>>, stderr |-> <<>>])
          /\ faults' = faults + 1
          /\ UNCHANGED <<child, pipe, thread, stdstream>>
    /\ UnchangedOutside

\* The child's next write: it blocks while the pipe is full, and fails once
\* the reading end is closed, after which the child goes on or is killed.
ChildWrite ==
    /\ child.state = "running"
    /\ child.todo # <<>>
    /\ LET w == Head(child.todo) IN
       IF pipe[w.stream].reader
       THEN /\ Len(pipe[w.stream].data) < PipeCap
            /\ pipe' = [pipe EXCEPT ![w.stream].data = Append(@, w.byte)]
            /\ child' = [child EXCEPT !.todo = Tail(@)]
       ELSE \/ /\ child' = [child EXCEPT !.todo = Tail(@)]
               /\ UNCHANGED pipe
            \/ /\ child' = [child EXCEPT !.state = "exited"]
               /\ pipe' = [i \in Streams |-> [pipe[i] EXCEPT !.open = FALSE]]
    /\ UNCHANGED <<exec_pc, thread, stdstream, output, faults>>
    /\ UnchangedOutside

\* The child closes both streams and keeps running for a while.
ChildClose ==
    /\ child.state = "running"
    /\ child.todo = <<>>
    /\ child' = [child EXCEPT !.state = "closed"]
    /\ pipe' = [i \in Streams |-> [pipe[i] EXCEPT !.open = FALSE]]
    /\ UNCHANGED <<exec_pc, thread, stdstream, output, faults>>
    /\ UnchangedOutside

\* The child exits, which closes the streams it still holds.
ChildExit ==
    /\ child.state \in {"running", "closed"}
    /\ child.todo = <<>>
    /\ child' = [child EXCEPT !.state = "exited"]
    /\ pipe' = [i \in Streams |-> [pipe[i] EXCEPT !.open = FALSE]]
    /\ UNCHANGED <<exec_pc, thread, stdstream, output, faults>>
    /\ UnchangedOutside

\* io::copy reads from the pipe: it blocks on an empty open pipe and ends
\* the thread with Ok(sbw.buf) at end of file.
LaneRead(i) ==
    /\ Runnable(i)
    /\ thread[i].pc = "read"
    /\ \/ /\ pipe[i].data # <<>>
          /\ \E n \in 1..Len(pipe[i].data) :
                /\ thread' = [thread EXCEPT ![i].pc = "write",
                                            ![i].chunk = SubSeq(pipe[i].data, 1, n)]
                /\ pipe' = [pipe EXCEPT ![i].data =
                                SubSeq(@, n + 1, Len(@))]
       \/ /\ pipe[i].data = <<>>
          /\ ~pipe[i].open
          /\ thread' = [thread EXCEPT ![i].pc = "finished"]
          /\ pipe' = [pipe EXCEPT ![i].reader = FALSE]
    /\ UNCHANGED <<exec_pc, child, stdstream, output, faults>>
    /\ UnchangedOutside

\* One StreamBufferWriter::write call of io::copy's write_all: a short write
\* leaves the rest of the chunk for the next call, Interrupted is retried,
\* a write of zero bytes and any other error end the thread with Err.
LaneWrite(i) ==
    /\ Runnable(i)
    /\ thread[i].pc = "write"
    /\ \E wr \in WriteOutcomes(thread[i].chunk) :
          LET w == StreamBufferWriter_write(
                       [stdstream |-> stdstream[i], buf |-> thread[i].buf],
                       thread[i].chunk, wr)
              rest == SubSeq(thread[i].chunk, wr.len + 1, Len(thread[i].chunk))
          IN  /\ stdstream' = [stdstream EXCEPT ![i] = w.stdstream]
              /\ faults' = IF wr.ok /\ wr.len > 0 THEN faults ELSE faults + 1
              /\ CASE wr.ok /\ wr.len > 0 ->
                        /\ thread' = [thread EXCEPT ![i] =
                              Lane(IF rest = <<>> THEN "read" ELSE "write", rest, w.buf,
                                   TRUE, IF rest = <<>> THEN "full" ELSE "partial")]
                        /\ UNCHANGED pipe
                   [] ~wr.ok /\ wr.kind = "Interrupted" ->
                        /\ thread' = [thread EXCEPT ![i].buf = w.buf,
                                                    ![i].last = "interrupted"]
                        /\ UNCHANGED pipe
                   [] OTHER ->
                        /\ thread' = [thread EXCEPT ![i] =
                              Lane("finished", thread[i].chunk, w.buf, FALSE, "failed")]
                        /\ pipe' = [pipe EXCEPT ![i].reader = FALSE]
    /\ UNCHANGED <<exec_pc, child, output>>
    /\ UnchangedOutside

CaptureError == Err(AppError_Error(<<"Failed to capture stdio of ">> \o ExecCommand))
TerminateError == Err(AppError_Error(<<"Failed to terminate ">> \o ExecCommand))

\* jh.join().unwrap()? on the stdout thread, then on the stderr thread: an
\* Err of a thread is returned at once.
ExecJoin(i) ==
    /\ exec_pc = (IF i = 1 THEN "join1" ELSE "join2")
    /\ Joined(i)
    /\ IF thread[i].ok
       THEN /\ exec_pc' = (IF i = 1 THEN "join2" ELSE "wait")
            /\ UNCHANGED output
       ELSE /\ exec_pc' = "done"
            /\ output' = CaptureError
    /\ UNCHANGED <<child, pipe, thread, stdstream, faults>>
    /\ UnchangedOutside

\* child.wait(), then the result is built from the two buffers.
ExecWait ==
    /\ exec_pc = "wait"
    /\ Waited
    /\ exec_pc' = "done"
    /\ \/ /\ output' = exec_pipe(ExecCommand, [ok |-> TRUE, stdout |-> thread[1].buf,
                                                    stderr |-> thread[2].buf])
          /\ UNCHANGED faults
       \/ /\ faults < MaxFaults
          /\ output' = TerminateError
          /\ faults' = faults + 1
    /\ UNCHANGED <<child, pipe, thread, stdstream>>
    /\ UnchangedOutside

ExecInit ==
    /\ exec_pc = "spawn"
    /\ child \in {[state |-> "none", todo |-> p] : p \in ChildPrograms}
    /\ pipe = <<>>
    /\ thread = <<>>
    /\ stdstream = <<>>
    /\ output = Ok(<<>>)
    /\ faults = 0
    /\ AgentIdle
    /\ ChatIdle

ChildStep == ChildWrite \/ ChildClose \/ ChildExit
LaneStep(i) == LaneRead(i) \/ LaneWrite(i)
ExecStep == ExecSpawn \/ ExecJoin(1) \/ ExecJoin(2) \/ ExecWait

ExecNext ==
    \/ ExecSpawn
    \/ ChildWrite
    \/ ChildClose
    \/ ChildExit
    \/ \E i \in Streams : LaneRead(i)
    \/ \E i \in Streams : LaneWrite(i)
    \/ \E i \in Streams : ExecJoin(i)
    \/ ExecWait

SpecExec == ExecInit /\ [][ExecNext]_vars

\* The scheduler runs every thread and the child that can take a step.
ExecFairness ==
    /\ WF_vars(ChildStep)
    /\ \A i \in Streams : WF_vars(LaneStep(i))
    /\ WF_vars(ExecStep)

SpecExecLive == SpecExec /\ ExecFairness

(***************************************************************************)
(* Claims on exec_pipe.                                                    *)
(***************************************************************************)
LanesFinished == thread # <<>> /\ \A i \in Streams : thread[i].pc = "finished"
ToolResultBuilt == exec_pc = "done" /\ output.ok

\* C32: exec_pipe returns the tool result only after the child process has
\* exited and both the stdout and the stderr thread have finished; while a
\* thread is draining or the child is running no tool result exists.
C32_ResultAfterExitAndDrain ==
    ToolResultBuilt => child.state = "exited" /\ LanesFinished

\* A tool result holding bytes of both streams was built.
C32_Witness ==
    /\ ToolResultBuilt
    /\ thread[1].buf # <<>>
    /\ thread[2].buf # <<>>

\* C33: once the child runs, whatever the order of its writes to the two
\* bounded pipes, the child exits, both threads finish and exec_pipe
\* returns: no party stays blocked on a full pipe.
C33_NoDeadlock ==
    (child.state \in {"running", "closed"})
        ~> (child.state = "exited" /\ LanesFinished /\ exec_pc = "done")

\* The child wrote more to one stream than its pipe holds, and exec_pipe
\* returned the result.
C33_Witness ==
    /\ ToolResultBuilt
    /\ \E i \in Streams : Len(thread[i].buf) > PipeCap

\* C34: in each thread the buffer of StreamBufferWriter equals the bytes the
\* terminal stream has taken, after short writes and failed writes too.
C34_BufferIsWhatWasShown ==
    thread # <<>> => \A i \in Streams : thread[i].buf = stdstream[i]

\* A short write left part of the chunk unwritten, and a write failed with
\* bytes already in the buffer.
C34_Witness ==
    /\ thread # <<>>
    /\ thread[1].last = "partial"
    /\ thread[1].buf # <<>>
    /\ thread[2].last \in {"failed", "interrupted"}

(***************************************************************************)
(* Claims on roles and on the history (SpecChat).                          *)
(***************************************************************************)
RecognizedRoles == {<<"system">>, <<"model">>, <<"assistant">>, <<"user">>}

\* The role strings a vendor response carries where the adapter reads them.
VendorRoles(prov, resp) ==
    CASE prov = "OpenAI" ->
            IF is_array(Idx(resp, "choices"))
            THEN {Idx(Idx(Idx(resp, "choices").v[i], "message"), "role") :
                      i \in DOMAIN Idx(resp, "choices").v}
            ELSE {}
      [] prov = "Anthropic" -> {Idx(resp, "role")}
      [] prov = "GCP" ->
            IF is_array(Idx(resp, "candidates"))
            THEN {Idx(Idx(Idx(resp, "candidates").v[i], "content"), "role") :
                      i \in DOMAIN Idx(resp, "candidates").v}
            ELSE {}

\* The last call got a response without an error envelope that carries a
\* role string outside the recognized set.
UnknownRoleResponse ==
    /\ op = "get_inference"
    /\ transport.ok
    /\ ~HasKey(transport.val, "error")
    /\ \E r \in VendorRoles(config.provider, transport.val) :
          is_string(r) /\ r.v \notin RecognizedRoles

\* C35: a vendor response with a role string outside the recognized set
\* makes get_inference fail with a response-format error; no message, and so
\* no Text under a default role, is returned.
C35_UnknownRoleFails ==
    UnknownRoleResponse =>
        /\ ~result.ok
        /\ result.err.kind = "LLMResponseError"
        /\ result.val = <<>>

\* Each adapter has met a response with role "bot".
C35_Witness == UnknownRoleResponse /\ config.provider = "Anthropic"
C35_WitnessOpenAI == UnknownRoleResponse /\ config.provider = "OpenAI"
C35_WitnessGcp == UnknownRoleResponse /\ config.provider = "GCP"

\* The content fragments of the response a transport outcome carries: none
\* when the request failed or the response is an error envelope.
ResponseFragments(prov, tr) ==
    IF tr.ok /\ ~HasKey(tr.val, "error")
             /\ is_array(Idx(tr.val, CASE prov = "OpenAI" -> "choices"
                                       [] prov = "Anthropic" -> "content"
                                       [] prov = "GCP" -> "candidates"))
    THEN VendorFragments(prov, tr.val)
    ELSE <<>>

\* C36: a get_inference call, successful or not, leaves the history it
\* found as a prefix of the new history; what it appends is one entry for
\* each input message, in input order, and after them entries that hold
\* fragments of the vendor response in the order of the response.
C36_Step ==
    GetInferenceStep =>
        /\ IsPrefix(history, history')
        /\ \E messages \in ChatInputs :
              LET added == SubSeq(history', Len(history) + 1, Len(history'))
                  n == Len(Accepted(messages))
              IN  /\ n <= Len(added)
                  /\ EntriesOf(config.provider, SubSeq(added, 1, n), Accepted(messages))
                  /\ IsPrefix(EntryFragments(config.provider,
                                             SubSeq(added, n + 1, Len(added))),
                              ResponseFragments(config.provider, transport'))
                  /\ result'.ok =>
                        EntryFragments(config.provider, SubSeq(added, n + 1, Len(added)))
                            = ResponseFragments(config.provider, transport')
C36_AppendOnly == [][C36_Step]_vars

\* A second call has failed on its response after earlier calls had filled
\* the history, and entries of its response are in the history.
C36_Witness ==
    /\ op = "get_inference"
    /\ requests = MaxRequests
    /\ transport.ok
    /\ ~result.ok
    /\ Len(history) >= 4

IsSystemEntry(entry) == Idx(entry, "role") = JStr(<<"system">>)
\* The user, assistant and tool entries of a history, in order.
NonSystemEntries(hist) == SelectSeq(hist, LAMBDA entry : ~IsSystemEntry(entry))
SetSystemPromptStep == op' = "set_system_prompt" /\ config.provider = "OpenAI"

\* C37: on the OpenAI adapter, whatever get_inference, clear_history and
\* set_system_prompt calls came before, set_system_prompt leaves every user,
\* assistant and tool entry of the history in place: it only puts a
\* system entry at index 0 or replaces the system entry there.
C37_Step ==
    SetSystemPromptStep =>
        /\ NonSystemEntries(history') = NonSystemEntries(history)
        /\ history' # <<>>
        /\ IsSystemEntry(history'[1])
C37_PromptKeepsEntries == [][C37_Step]_vars

\* What holds: the entries after index 0 are kept, and entry 0 is kept
\* too when it was a system entry or the history was empty.
C37_StepFromSystemEntry ==
    SetSystemPromptStep =>
        /\ IsSystemEntry(history'[1])
        /\ SubSeq(history', 2, Len(history')) = SubSeq(history, 2, Len(history))
        /\ (history = <<>> \/ IsSystemEntry(history[1])) =>
              NonSystemEntries(history') = NonSystemEntries(history)
C37_SystemEntryReplaced == [][C37_StepFromSystemEntry]_vars

\* The last get_inference failed with a response-format error on a response
\* that held no error envelope.
FailedOnResponse ==
    /\ op = "get_inference"
    /\ transport.ok
    /\ ~HasKey(transport.val, "error")
    /\ ~result.ok
    /\ result.err.kind = "LLMResponseError"

\* C38: after a get_inference that failed with a response-format error
\* while walking the vendor response, no entry of that response is in the
\* history: the history is the one the request replayed.
C38_FailedResponseLeavesNoEntry ==
    FailedOnResponse => history = Replayed(payload)

\* What holds: a response whose top-level role is unknown to the Anthropic
\* adapter is refused before any of its fragments is walked.
C38_AnthropicRoleCheckedFirst ==
    (FailedOnResponse /\ config.provider = "Anthropic" /\ UnknownRoleResponse)
        => history = Replayed(payload)

(***************************************************************************)
(* SpecDriven: Agent::run (apprentice/src/agent.rs) driving the OpenAI or  *)
(* the Anthropic adapter: every get_inference of the session is made with  *)
(* the one message process_response or get_user_message gave.              *)
(***************************************************************************)
MaxDrivenCalls == 2    \* get_inference calls of one driven session

\* The call id the vendor gives to the tool call of its k-th response.
DrivenCallId(k) == FragmentId(k)

OpenAI_msg_call(k, arguments) ==
    JObj([role |-> JStr(<<"assistant">>), content |-> JNull,
          tool_calls |->
             JArr(<<JObj([id |-> JStr(DrivenCallId(k)), type |-> JStr(<<"function">>),
                          function |-> JObj([name |-> JStr(S_SHELL),
                                             arguments |-> JStr(arguments)])])>>)])
Anthropic_call(k) ==
    JObj([type |-> JStr(<<"tool_use">>), id |-> JStr(DrivenCallId(k)),
          name |-> JStr(S_SHELL), input |-> JObj([command |-> JStr(<<"l", "s">>)])])

\* What the vendor may answer to the k-th call of the session: a text, a
\* tool call, a tool call with a text, and a tool call in a response whose
\* walk fails (unparseable arguments, unknown fragment type).
DrivenResponses(prov, k) ==
    CASE prov = "OpenAI" ->
            {JObj([choices |-> JArr(<<OpenAI_choice(OpenAI_msg_text)>>)]),
             JObj([choices |-> JArr(<<OpenAI_choice(OpenAI_msg_call(k, Args_ls))>>)]),
             JObj([choices |-> JArr(<<OpenAI_choice(
                        Put(OpenAI_msg_call(k, Args_ls), "content", JStr(T_hi)))>>)]),
             JObj([choices |-> JArr(<<OpenAI_choice(OpenAI_msg_call(k, Args_bad))>>)])}
      [] prov = "Anthropic" ->
            {Anthropic_message(<<Anthropic_text>>),
             Anthropic_message(<<Anthropic_call(k)>>),
             Anthropic_message(<<Anthropic_call(k), Anthropic_text>>),
             Anthropic_message(<<Anthropic_call(k), Anthropic_image>>)}

DrivenTransports(prov, k) ==
    {Ok(r) : r \in DrivenResponses(prov, k)}
    \cup {Err(LibErr("LLMCallError", <<"connection refused">>))}

\* agent.rs 54-57, 69-72 on a real adapter: get_inference with the pending
\* message, then process_response on its result.
DrivenInference ==
    /\ pc = "inference"
    /\ calls < MaxDrivenCalls
    /\ \E tr \in DrivenTransports(config.provider, calls + 1), px \in ExecOutcomes :
          LET r == LLMChat_get_inference(config, system_prompt, history, AgentTools,
                                         <<next_message>>, ToolChoice_Auto, tr)
          IN /\ history' = r.history
             /\ payload' = r.payload
             /\ result' = r.result
             /\ transport' = tr
             /\ response' = map_err_LibError(r.result)
             /\ Become(Agent_process_response(
                           response', <<InferenceEvent(<<next_message>>)>>, goal, px))
    /\ op' = "get_inference"
    /\ requests' = requests + 1
    /\ calls' = calls + 1
    /\ execs' = NumExecs(events')
    /\ UNCHANGED <<exec_vars, goal, message, config, tool_choice, system_prompt>>

\* agent.rs 35-36: Agent::new builds the chat and sets the system prompt.
DrivenInit ==
    /\ goal = "Gcp"
    /\ message \in {NoString, <<"h", "i">>}
    /\ pc = "run"
    /\ next_message = NoMessage
    /\ tool_call = NoMessage
    /\ command = NoString
    /\ response = Ok(<<>>)
    /\ calls = 0
    /\ events = <<>>
    /\ execs = 0
    /\ run_result = NotReturned
    /\ config \in {Config_set("OpenAI"), Config_set("Anthropic")}
    /\ tool_choice = ToolChoice_Auto
    /\ system_prompt = <<"be brief">>
    /\ history = LLMChat_set_system_prompt(config, <<>>, system_prompt)
    /\ payload = JNull
    /\ transport = Ok(JNull)
    /\ result = Ok(<<>>)
    /\ op = "set_system_prompt"
    /\ requests = 0
    /\ ExecIdle

DrivenNext ==
    \/ Run
    \/ GetUserMessage
    \/ DrivenInference
    \/ ExecConfirm
    \/ ExecReason

SpecDriven == DrivenInit /\ [][DrivenNext]_vars

IsModelEntry(entry) == Idx(entry, "role") = JStr(<<"assistant">>)

\* The call ids of the tool invocations a history entry holds.
ToolCallIds(prov, entry) ==
    IF ~IsModelEntry(entry) THEN {}
    ELSE CASE prov = "OpenAI" ->
                 IF is_array(Idx(entry, "tool_calls"))
                 THEN {Idx(Idx(entry, "tool_calls").v[j], "id") :
                           j \in DOMAIN Idx(entry, "tool_calls").v}
                 ELSE {}
           [] prov = "Anthropic" ->
                 IF is_array(Idx(entry, "content"))
                 THEN {Idx(Idx(entry, "content").v[j], "id") :
                           j \in {j \in DOMAIN Idx(entry, "content").v :
                                     Idx(Idx(entry, "content").v[j], "type")
                                         = JStr(<<"tool_use">>)}}
                 ELSE {}

\* The call id a tool-result entry carries, JNull for another entry.
ToolResultId(prov, entry) ==
    CASE prov = "OpenAI" ->
            IF Idx(entry, "role") = JStr(<<"tool">>)
            THEN Idx(entry, "tool_call_id") ELSE JNull
      [] prov = "Anthropic" ->
            IF Idx(entry, "role") = JStr(<<"user">>) /\ is_array(Idx(entry, "content"))
            THEN Idx(Idx(entry, "content").v[1], "tool_use_id") ELSE JNull

\* The entries of the model response that ends just before entry i.
ResponseBefore(hist, i) ==
    {j \in 1..(i - 1) : \A m \in j..(i - 1) : IsModelEntry(hist[m])}

\* The entries of model responses appended after the response of entry i.
LaterResponses(hist, i) ==
    {k \in (i + 1)..Len(hist) :
        /\ IsModelEntry(hist[k])
        /\ \E m \in (i + 1)..(k - 1) : ~IsModelEntry(hist[m])}

\* The tool-result entries for call id x between entry i and the next response.
Answers(prov, hist, i, x) ==
    {r \in (i + 1)..Len(hist) :
        /\ ToolResultId(prov, hist[r]) = x
        /\ \A k \in LaterResponses(hist, i) : r < k}

\* Every tool-result entry answers a call of the response just before it.
ResultsFollowCalls(prov, hist) ==
    \A r \in DOMAIN hist :
        ToolResultId(prov, hist[r]) # JNull =>
            \E j \in ResponseBefore(hist, r) :
                ToolResultId(prov, hist[r]) \in ToolCallIds(prov, hist[j])

\* Every call id has its one tool-result entry once a later response is in.
CallsAnswered(prov, hist) ==
    \A i \in DOMAIN hist : \A x \in ToolCallIds(prov, hist[i]) :
        LaterResponses(hist, i) # {} =>
            Cardinality(Answers(prov, hist, i, x)) = 1

\* C39: in a session the orchestrator drives on OpenAI or Anthropic, every
\* tool-result entry of the history carries the call id of a tool invocation
\* of the model response right before it, and every call id in the history
\* has exactly one tool-result entry before the next model response.
C39_CallsAndResults ==
    /\ ResultsFollowCalls(config.provider, history)
    /\ CallsAnswered(config.provider, history)

\* What holds: a tool-result entry always answers a call of the response
\* right before it, and no call id is answered twice.
C39_ResultsFollowCalls ==
    /\ ResultsFollowCalls(config.provider, history)
    /\ \A i \in DOMAIN history : \A x \in ToolCallIds(config.provider, history[i]) :
          Cardinality(Answers(config.provider, history, i, x)) <= 1

====
